---- MODULE Spec2Model ----
(***************************************************************************)
(* A model of the vlog logging pipeline of vitistack/common                *)
(* (src/pkg/loggers/vlog/vlog.go): the escape processor, the level mapper, *)
(* the handlers and their derivation, the writer lock, the lazily          *)
(* initialised global logger and the logr sink adapter.                    *)
(*                                                                         *)
(* Byte slices are sequences of one-character strings.  The bytes that are *)
(* awkward to write are named: BS (backslash), QT (double quote), NL       *)
(* (newline), TAB, ESC (0x1b).  Indices into byte slices are the 0-based   *)
(* indices of the Go code; Slice(b, lo, hi) is b[lo:hi].                   *)
(***************************************************************************)
EXTENDS Integers, Sequences, FiniteSets, TLC

VARIABLES
    escIn,      \* EscapeProcessor: the rendered line handed to unescapeMultilineAttrs
    escBuf,     \* EscapeProcessor: b, the buffer the loop rewrites
    escCursor,  \* EscapeProcessor: cursor
    escPc,      \* EscapeProcessor: "build" | "loop" | "done" | "panic"
    escIters,   \* EscapeProcessor: loop iterations executed
    escN        \* EscapeProcessor: fragments the input line was built from

escVars == <<escIn, escBuf, escCursor, escPc, escIters, escN>>

VARIABLES
    base,       \* the package-level *slog.Logger: the id of its handler, 0 for nil
    addCaller,  \* the package-level flag addCaller
    doUnescape, \* the package-level flag doUnescape
    handlers,   \* the handlers allocated so far; a handler's id is its index
    arrays,     \* the backing arrays of the slices allocated so far; an array's id is its index
    mu,         \* per writer lock (one per handler made by Setup): the goroutine holding it, 0 when free
    stdout,     \* os.Stdout: the bytes written so far
    once        \* the package-level sync.Once: "new" | "running" | "done"

pkgVars == <<base, addCaller, doUnescape, handlers, arrays, mu, stdout, once>>

VARIABLES
    lvlIn,      \* LevelMapper scenario: the Options.Level string given to Setup
    lvlV,       \* LevelMapper scenario: the verbosity the sink was called with
    lvlRes,     \* LevelMapper scenario: what the sink call gave (Enabled's result, Info's lvl)
    lvlPc       \* LevelMapper scenario: "start" | "configured" | "enabled" | "info"

lvlVars == <<lvlIn, lvlV, lvlRes, lvlPc>>

VARIABLES
    wrPc,       \* writers scenario: per goroutine "start" | "ready" | "lock" | "write" | "done"
    wrH,        \* writers scenario: per goroutine the handler of the logger it emits through
    wrBuf,      \* writers scenario: per goroutine the bytes Handle passes to Write
    wrPos,      \* writers scenario: per goroutine how many of these bytes the stream has taken
    wrSent      \* writers scenario: per goroutine the events emitted so far

wrVars == <<wrPc, wrH, wrBuf, wrPos, wrSent>>

VARIABLES
    enPc,       \* first-use scenario: per goroutine its position in ensure()
    enVia,      \* first-use scenario: per goroutine the entry point it came through
    enView,     \* first-use scenario: per goroutine whether the write of base is visible to it
    enSeen      \* first-use scenario: per goroutine the base it read after ensure() returned

enVars == <<enPc, enVia, enView, enSeen>>

VARIABLES
    stPc,       \* re-Setup scenario: "run" | "emitted"
    stOpts,     \* re-Setup scenario: the Options of the Setup calls so far, in order
    stHandles,  \* re-Setup scenario: the handles callers hold (the handler each one points to)
    stUsed,     \* re-Setup scenario: the handle the last event went through
    stRec,      \* re-Setup scenario: the last event
    stOut       \* re-Setup scenario: the bytes the last event put on the stream

stVars == <<stPc, stOpts, stHandles, stUsed, stRec, stOut>>

VARIABLES
    dvPc,       \* derivation scenario: per goroutine "idle" | "called"
    dvCall,     \* derivation scenario: per goroutine the call it is in
    dvCalls     \* derivation scenario: the calls that returned, each with the handler it gave

dvVars == <<dvPc, dvCall, dvCalls>>

VARIABLES
    abPc,       \* enablement scenario: "start" | "configured" | "returned"
    abCall,     \* enablement scenario: the last call (entry point, level, arguments)
    abTrace     \* enablement scenario: the work the last call did, in order

abVars == <<abPc, abCall, abTrace>>

\* The formatting scenario: the string being put together from tokens, the
\* number of tokens in it, the value handed to autoFormatJSON, the value it
\* returned, and the position of the scenario
VARIABLES fmtStr, fmtN, fmtIn, fmtOut, fmtPc
fmtVars == <<fmtStr, fmtN, fmtIn, fmtOut, fmtPc>>

\* The colouring scenario: the rendered event, the number of fragments in
\* it, its level, the bytes applyMultilineColor returned, and the position
VARIABLES colIn, colN, colLevel, colOut, colPc
colVars == <<colIn, colN, colLevel, colOut, colPc>>

\* The emission scenario: the position, the last call, the record it handed
\* to Handle and the bytes it wrote
VARIABLES emPc, emCall, emRec, emOut
emVars == <<emPc, emCall, emRec, emOut>>

\* The sink scenario: the sinks made so far (name and kv slice), the arrays
\* behind their kv slices, the names given to each sink in order, and the
\* last call
VARIABLES skSinks, skArrays, skNames, skLast
skVars == <<skSinks, skArrays, skNames, skLast>>

\* The explicit-Setup scenario: the position of the goroutine that calls
\* Setup(opts), its opts, and the logger its call made
VARIABLES xsPc, xsOpts, xsBase
xsVars == <<xsPc, xsOpts, xsBase>>

\* The caller scenario: the position, the last call (entry point, level and
\* the stack of the calling goroutine above the entry point), the record it
\* handed to Handle and the bytes it wrote
VARIABLES clPc, clCall, clRec, clOut
clVars == <<clPc, clCall, clRec, clOut>>

\* The write-failure scenario: the position, whether the stream rejects
\* every write, and the last call of a package-level function with what
\* became of it
VARIABLES fwPc, fwFails, fwCall
fwVars == <<fwPc, fwFails, fwCall>>

vars == <<escVars, pkgVars, lvlVars, wrVars, enVars, stVars, dvVars, abVars, fmtVars, colVars, emVars, skVars, xsVars, clVars, fwVars>>

\* What the actions of each scenario leave alone
escOthers == <<pkgVars, lvlVars, wrVars, enVars, stVars, dvVars, abVars, fmtVars, colVars, emVars, skVars, xsVars, clVars, fwVars>>
lvlOthers == <<escVars, wrVars, enVars, stVars, dvVars, abVars, fmtVars, colVars, emVars, skVars, xsVars, clVars, fwVars>>
wrOthers == <<escVars, lvlVars, enVars, stVars, dvVars, abVars, fmtVars, colVars, emVars, skVars, xsVars, clVars, fwVars>>
enOthers == <<escVars, lvlVars, wrVars, stVars, dvVars, abVars, fmtVars, colVars, emVars, skVars, xsVars, clVars, fwVars>>
stOthers == <<escVars, lvlVars, wrVars, enVars, dvVars, abVars, fmtVars, colVars, emVars, skVars, xsVars, clVars, fwVars>>
dvOthers == <<escVars, lvlVars, wrVars, enVars, stVars, abVars, fmtVars, colVars, emVars, skVars, xsVars, clVars, fwVars>>
abOthers == <<escVars, lvlVars, wrVars, enVars, stVars, dvVars, fmtVars, colVars, emVars, skVars, xsVars, clVars, fwVars>>
fmtOthers == <<escVars, lvlVars, wrVars, enVars, stVars, dvVars, abVars, colVars, emVars, skVars, xsVars, clVars, fwVars>>
colOthers == <<escVars, lvlVars, wrVars, enVars, stVars, dvVars, abVars, fmtVars, emVars, skVars, xsVars, clVars, fwVars>>
emOthers == <<escVars, lvlVars, wrVars, enVars, stVars, dvVars, abVars, fmtVars, colVars, skVars, xsVars, clVars, fwVars>>
skOthers == <<escVars, lvlVars, wrVars, enVars, stVars, dvVars, abVars, fmtVars, colVars, emVars, xsVars, clVars, fwVars>>
xsOthers == <<escVars, lvlVars, wrVars, enVars, stVars, dvVars, abVars, fmtVars, colVars, emVars, skVars, clVars, fwVars>>
clOthers == <<escVars, lvlVars, wrVars, enVars, stVars, dvVars, abVars, fmtVars, colVars, emVars, skVars, xsVars, fwVars>>
fwOthers == <<escVars, lvlVars, wrVars, enVars, stVars, dvVars, abVars, fmtVars, colVars, emVars, skVars, xsVars, clVars>>

-----------------------------------------------------------------------------
(* Bytes *)

BS == "BS"
QT == "QT"
NL == "NL"
TAB == "TAB"
ESC == "ESC"

\* b[i] with the 0-based index of the Go code
At(b, i) == b[i + 1]

\* b[lo:hi]
Slice(b, lo, hi) == SubSeq(b, lo + 1, hi)

\* The Go runtime's bounds check of b[lo:hi]
sliceOK(b, lo, hi) == 0 <= lo /\ lo <= hi /\ hi <= Len(b)

\* bytes.Index(b, pat): the 0-based index of the first occurrence, or -1
bytesIndex(b, pat) ==
    LET hits == {i \in 0..(Len(b) - Len(pat)) : Slice(b, i, i + Len(pat)) = pat}
    IN IF hits = {} THEN -1 ELSE CHOOSE i \in hits : \A j \in hits : i <= j

\* bytes.Contains(b, pat)
bytesContains(b, pat) == bytesIndex(b, pat) # -1

\* The literals `\n` (two bytes) and `="`
escapedNL == <<BS, "n">>
eqQuote == <<"=", QT>>

-----------------------------------------------------------------------------
(* EscapeProcessor: vlog.go 684-769 *)

\* A check for any backslash instead of the two bytes backslash, n
hasEscapedNewlineAnyBackslash(b) == bytesContains(b, <<BS>>)

\* bytes.Contains(b, []byte(`\n`)): the test of the fast path (687) and of
\* each segment (703)
hasEscapedNewline(b) == bytesContains(b, escapedNL)

\* findClosingQuote: the two-state scan (esc / not esc) from start
RECURSIVE findClosingQuoteFrom(_, _, _)
findClosingQuoteFrom(b, i, esc) ==
    IF ~(i < Len(b)) THEN -1
    ELSE IF esc THEN findClosingQuoteFrom(b, i + 1, FALSE)
    ELSE IF At(b, i) = BS THEN findClosingQuoteFrom(b, i + 1, TRUE)
    ELSE IF At(b, i) = QT THEN i
    ELSE findClosingQuoteFrom(b, i + 1, FALSE)

findClosingQuote(b, start) == findClosingQuoteFrom(b, start, FALSE)

\* unescapeMsgSegment: the second two-state scan, byte by byte
RECURSIVE unescapeMsgSegmentFrom(_, _, _)
unescapeMsgSegmentFrom(seg, i, esc) ==
    IF ~(i < Len(seg)) THEN <<>>
    ELSE LET c == At(seg, i) IN
         IF esc
         THEN <<(CASE c = "n" -> NL
                   [] c = "t" -> TAB
                   [] OTHER -> c)>> \o unescapeMsgSegmentFrom(seg, i + 1, FALSE)
         ELSE IF c = BS THEN unescapeMsgSegmentFrom(seg, i + 1, TRUE)
         ELSE <<c>> \o unescapeMsgSegmentFrom(seg, i + 1, FALSE)

unescapeMsgSegment(seg) == unescapeMsgSegmentFrom(seg, 0, FALSE)

\* rebuildMultilineValue: orig[:eqIdx+1] ++ expanded ++ orig[end+1:]
rebuildMultilineValue(orig, eqIdx, end, expanded) ==
    Slice(orig, 0, eqIdx + 1) \o expanded \o Slice(orig, end + 1, Len(orig))

\* The iteration with the cursor set from the closing quote's index in the
\* buffer before the splice
unescapeIterateStaleCursor(b, cursor) ==
    LET rel == bytesIndex(Slice(b, cursor, Len(b)), eqQuote) IN
    IF rel = -1 THEN [b |-> b, cursor |-> cursor, pc |-> "done"]
    ELSE
      LET eqIdx == rel + cursor
          valStart == eqIdx + 2
          end == findClosingQuote(b, valStart)
      IN
      IF end = -1 THEN [b |-> b, cursor |-> cursor, pc |-> "done"]
      ELSE IF ~sliceOK(b, valStart, end)
      THEN [b |-> b, cursor |-> cursor, pc |-> "panic"]
      ELSE
        LET segment == Slice(b, valStart, end) IN
        IF ~hasEscapedNewline(segment)
        THEN [b |-> b, cursor |-> end + 1, pc |-> "loop"]
        ELSE
          LET expanded == unescapeMsgSegment(segment) IN
          [b |-> rebuildMultilineValue(b, eqIdx, end, expanded),
           cursor |-> end + 1,
           pc |-> "loop"]

\* The iteration without the test of end == -1
unescapeIterateNoBreak(b, cursor) ==
    LET rel == bytesIndex(Slice(b, cursor, Len(b)), eqQuote) IN
    IF rel = -1 THEN [b |-> b, cursor |-> cursor, pc |-> "done"]
    ELSE
      LET eqIdx == rel + cursor
          valStart == eqIdx + 2
          end == findClosingQuote(b, valStart)
      IN
      IF ~sliceOK(b, valStart, end)
      THEN [b |-> b, cursor |-> cursor, pc |-> "panic"]
      ELSE
        LET segment == Slice(b, valStart, end) IN
        IF ~hasEscapedNewline(segment)
        THEN [b |-> b, cursor |-> end + 1, pc |-> "loop"]
        ELSE
          LET expanded == unescapeMsgSegment(segment) IN
          [b |-> rebuildMultilineValue(b, eqIdx, end, expanded),
           cursor |-> eqIdx + 1 + Len(expanded),
           pc |-> "loop"]

\* The iteration with the cursor left where it was after a segment without
\* the bytes backslash, n
unescapeIterateSameCursor(b, cursor) ==
    LET rel == bytesIndex(Slice(b, cursor, Len(b)), eqQuote) IN
    IF rel = -1 THEN [b |-> b, cursor |-> cursor, pc |-> "done"]
    ELSE
      LET eqIdx == rel + cursor
          valStart == eqIdx + 2
          end == findClosingQuote(b, valStart)
      IN
      IF end = -1 THEN [b |-> b, cursor |-> cursor, pc |-> "done"]
      ELSE IF ~sliceOK(b, valStart, end)
      THEN [b |-> b, cursor |-> cursor, pc |-> "panic"]
      ELSE
        LET segment == Slice(b, valStart, end) IN
        IF ~hasEscapedNewline(segment)
        THEN [b |-> b, cursor |-> cursor, pc |-> "loop"]
        ELSE
          LET expanded == unescapeMsgSegment(segment) IN
          [b |-> rebuildMultilineValue(b, eqIdx, end, expanded),
           cursor |-> eqIdx + 1 + Len(expanded),
           pc |-> "loop"]

\* One iteration of the loop of unescapeMultilineAttrs (691-710), entered
\* with cursor < len(b).  The result is the next b and cursor and whether
\* the loop goes on ("loop"), was left by a break ("done"), or the runtime
\* panicked on a slice out of range ("panic").
unescapeIterate(b, cursor) ==
    LET rel == bytesIndex(Slice(b, cursor, Len(b)), eqQuote) IN
    IF rel = -1 THEN [b |-> b, cursor |-> cursor, pc |-> "done"]
    ELSE
      LET eqIdx == rel + cursor
          valStart == eqIdx + 2
          end == findClosingQuote(b, valStart)
      IN
      IF end = -1 THEN [b |-> b, cursor |-> cursor, pc |-> "done"]
      ELSE IF ~sliceOK(b, valStart, end)
      THEN [b |-> b, cursor |-> cursor, pc |-> "panic"]
      ELSE
        LET segment == Slice(b, valStart, end) IN
        IF ~hasEscapedNewline(segment)
        THEN [b |-> b, cursor |-> end + 1, pc |-> "loop"]
        ELSE
          LET expanded == unescapeMsgSegment(segment) IN
          [b |-> rebuildMultilineValue(b, eqIdx, end, expanded),
           cursor |-> eqIdx + 1 + Len(expanded),
           pc |-> "loop"]

\* unescapeMultilineAttrs as a function: the fast path, then the loop
RECURSIVE unescapeLoop(_, _)
unescapeLoop(b, cursor) ==
    IF ~(cursor < Len(b)) THEN b
    ELSE LET r == unescapeIterate(b, cursor) IN
         IF r.pc = "loop" THEN unescapeLoop(r.b, r.cursor) ELSE r.b

unescapeMultilineAttrs(b) ==
    IF ~hasEscapedNewline(b) THEN b ELSE unescapeLoop(b, 0)

-----------------------------------------------------------------------------
(* LevelMapper: vlog.go 324-337, 780-803 *)

\* slog.LevelDebug, LevelInfo, LevelWarn, LevelError
LevelDebug == -4
LevelInfo == 0
LevelWarn == 4
LevelError == 8

Levels == {LevelDebug, LevelInfo, LevelWarn, LevelError}

LowerAlpha == <<"a", "b", "c", "d", "e", "f", "g", "h", "i", "j", "k", "l", "m",
                "n", "o", "p", "q", "r", "s", "t", "u", "v", "w", "x", "y", "z">>
UpperAlpha == <<"A", "B", "C", "D", "E", "F", "G", "H", "I", "J", "K", "L", "M",
                "N", "O", "P", "Q", "R", "S", "T", "U", "V", "W", "X", "Y", "Z">>

\* strings.ToLower, byte by byte
toLowerByte(c) ==
    IF \E i \in 1..26 : UpperAlpha[i] = c
    THEN LowerAlpha[CHOOSE i \in 1..26 : UpperAlpha[i] = c]
    ELSE c

toLower(str) == [i \in 1..Len(str) |-> toLowerByte(str[i])]

\* The level names of the switch of slogLevelFromString
strDebug == <<"d", "e", "b", "u", "g">>
strInfo == <<"i", "n", "f", "o">>
strWarn == <<"w", "a", "r", "n">>
strWarning == <<"w", "a", "r", "n", "i", "n", "g">>
strError == <<"e", "r", "r", "o", "r">>
strDpanic == <<"d", "p", "a", "n", "i", "c">>
strPanic == <<"p", "a", "n", "i", "c">>
strFatal == <<"f", "a", "t", "a", "l">>

\* The switch without strings.ToLower
slogLevelFromStringCaseSensitive(lvl) ==
    CASE lvl = strDebug -> LevelDebug
      [] lvl \in {<<>>, strInfo} -> LevelInfo
      [] lvl \in {strWarn, strWarning} -> LevelWarn
      [] lvl \in {strError, strDpanic, strPanic, strFatal} -> LevelError
      [] OTHER -> LevelInfo

\* slogLevelFromString
slogLevelFromString(lvl) ==
    LET l == toLower(lvl) IN
    CASE l = strDebug -> LevelDebug
      [] l \in {<<>>, strInfo} -> LevelInfo
      [] l \in {strWarn, strWarning} -> LevelWarn
      [] l \in {strError, strDpanic, strPanic, strFatal} -> LevelError
      [] OTHER -> LevelInfo

\* The sink's mapping of a logr verbosity (783-786 and 799-802)
sinkLevel(level) == IF level > 0 THEN LevelDebug ELSE LevelInfo

-----------------------------------------------------------------------------
(* JSON: encoding/json as reformatJSONBytes uses it (455-465).  A parsed    *)
(* document (the `any` json.Unmarshal gives) is a record tagged by t:       *)
(* "null", "bool" (b), "num" (n), "str" (s), "arr" (a, a sequence) and      *)
(* "obj" (m, a sequence of members [k, v] sorted by key, keys unique: a Go  *)
(* map, which MarshalIndent writes in key order).  Numbers are the          *)
(* non-negative integers; strings have the escapes \" \\ \n \t.             *)

JNull == [t |-> "null"]
JBool(b) == [t |-> "bool", b |-> b]
JNum(n) == [t |-> "num", n |-> n]
JStr(s) == [t |-> "str", s |-> s]
JArr(a) == [t |-> "arr", a |-> a]
JObj(m) == [t |-> "obj", m |-> m]

DigitChars == <<"0", "1", "2", "3", "4", "5", "6", "7", "8", "9">>
IsDigit(c) == \E d \in 1..10 : DigitChars[d] = c
digitVal(c) == (CHOOSE d \in 1..10 : DigitChars[d] = c) - 1

\* strconv.Itoa for n >= 0
RECURSIVE natToBytes(_)
natToBytes(n) ==
    IF n < 10 THEN <<DigitChars[n + 1]>>
    ELSE natToBytes(n \div 10) \o <<DigitChars[(n % 10) + 1]>>

\* The bytes in ASCII order, for comparing keys
AsciiOrder ==
    <<TAB, NL, ESC, " ", QT, ",", "-", ".", "/">> \o DigitChars
    \o <<":", "<", "=", ">">> \o UpperAlpha \o <<"[", BS, "]", "_">>
    \o LowerAlpha \o <<"{", "}">>

ord(c) == CHOOSE i \in 1..Len(AsciiOrder) : AsciiOrder[i] = c

\* x < y for strings, byte by byte
RECURSIVE bytesLess(_, _)
bytesLess(x, y) ==
    IF y = <<>> THEN FALSE
    ELSE IF x = <<>> THEN TRUE
    ELSE IF Head(x) = Head(y) THEN bytesLess(Tail(x), Tail(y))
    ELSE ord(Head(x)) < ord(Head(y))

\* m[key] = v on a map held as a sorted member list
RECURSIVE mapSet(_, _, _)
mapSet(m, key, v) ==
    IF m = <<>> THEN <<[k |-> key, v |-> v]>>
    ELSE IF Head(m).k = key THEN <<[k |-> key, v |-> v]>> \o Tail(m)
    ELSE IF bytesLess(key, Head(m).k) THEN <<[k |-> key, v |-> v]>> \o m
    ELSE <<Head(m)>> \o mapSet(Tail(m), key, v)

IsJSONSpace(c) == c \in {" ", NL, TAB}

\* The 1-based position of the first byte at or after i that is no white
\* space; Len(s) + 1 when there is none
RECURSIVE skipWS(_, _)
skipWS(s, i) ==
    IF i <= Len(s) /\ IsJSONSpace(s[i]) THEN skipWS(s, i + 1) ELSE i

ParseFail == [ok |-> FALSE, v |-> JNull, next |-> 0]

\* The string literal whose opening quote is just before position i
RECURSIVE parseStringFrom(_, _, _)
parseStringFrom(s, i, acc) ==
    IF i > Len(s) THEN ParseFail
    ELSE IF s[i] = QT THEN [ok |-> TRUE, v |-> JStr(acc), next |-> i + 1]
    ELSE IF s[i] \in {NL, TAB, ESC} THEN ParseFail
    ELSE IF s[i] = BS
    THEN IF i + 1 > Len(s) THEN ParseFail
         ELSE IF s[i + 1] = "n" THEN parseStringFrom(s, i + 2, Append(acc, NL))
         ELSE IF s[i + 1] = "t" THEN parseStringFrom(s, i + 2, Append(acc, TAB))
         ELSE IF s[i + 1] \in {QT, BS, "/"} THEN parseStringFrom(s, i + 2, Append(acc, s[i + 1]))
         ELSE ParseFail
    ELSE parseStringFrom(s, i + 1, Append(acc, s[i]))

\* The digits of a number from position i on
RECURSIVE parseDigits(_, _, _)
parseDigits(s, i, n) ==
    IF i <= Len(s) /\ IsDigit(s[i])
    THEN parseDigits(s, i + 1, 10 * n + digitVal(s[i]))
    ELSE [ok |-> TRUE, v |-> JNum(n), next |-> i]

\* A number at position i: 0, or a digit 1-9 and more digits
parseNumber(s, i) ==
    IF s[i] = "0"
    THEN IF i + 1 <= Len(s) /\ IsDigit(s[i + 1]) THEN ParseFail
         ELSE [ok |-> TRUE, v |-> JNum(0), next |-> i + 1]
    ELSE parseDigits(s, i, 0)

\* The literal word w at position i
parseWord(s, i, w, v) ==
    IF i + Len(w) - 1 <= Len(s) /\ SubSeq(s, i, i + Len(w) - 1) = w
    THEN [ok |-> TRUE, v |-> v, next |-> i + Len(w)]
    ELSE ParseFail

RECURSIVE parseValue(_, _)
RECURSIVE parseElements(_, _, _)
RECURSIVE parseMembers(_, _, _)

\* The elements of an array after the first one: i is just after an element
parseElements(s, i, acc) ==
    LET j == skipWS(s, i) IN
    IF j > Len(s) THEN ParseFail
    ELSE IF s[j] = "]" THEN [ok |-> TRUE, v |-> JArr(acc), next |-> j + 1]
    ELSE IF s[j] # "," THEN ParseFail
    ELSE LET e == parseValue(s, j + 1) IN
         IF ~e.ok THEN ParseFail ELSE parseElements(s, e.next, Append(acc, e.v))

\* One member "key": value at position i (white space skipped), added to m
parseMember(s, i, m) ==
    LET j == skipWS(s, i) IN
    IF j > Len(s) \/ s[j] # QT THEN ParseFail
    ELSE LET key == parseStringFrom(s, j + 1, <<>>) IN
         IF ~key.ok THEN ParseFail
         ELSE LET c == skipWS(s, key.next) IN
              IF c > Len(s) \/ s[c] # ":" THEN ParseFail
              ELSE LET e == parseValue(s, c + 1) IN
                   IF ~e.ok THEN ParseFail
                   ELSE [ok |-> TRUE, v |-> mapSet(m, key.v.s, e.v), next |-> e.next]

\* The members of an object after the first one: i is just after a member
parseMembers(s, i, m) ==
    LET j == skipWS(s, i) IN
    IF j > Len(s) THEN ParseFail
    ELSE IF s[j] = "}" THEN [ok |-> TRUE, v |-> JObj(m), next |-> j + 1]
    ELSE IF s[j] # "," THEN ParseFail
    ELSE LET e == parseMember(s, j + 1, m) IN
         IF ~e.ok THEN ParseFail ELSE parseMembers(s, e.next, e.v)

\* The value that starts at or after position i
parseValue(s, i) ==
    LET j == skipWS(s, i) IN
    IF j > Len(s) THEN ParseFail
    ELSE IF s[j] = "{"
    THEN LET c == skipWS(s, j + 1) IN
         IF c <= Len(s) /\ s[c] = "}" THEN [ok |-> TRUE, v |-> JObj(<<>>), next |-> c + 1]
         ELSE LET e == parseMember(s, j + 1, <<>>) IN
              IF ~e.ok THEN ParseFail ELSE parseMembers(s, e.next, e.v)
    ELSE IF s[j] = "["
    THEN LET c == skipWS(s, j + 1) IN
         IF c <= Len(s) /\ s[c] = "]" THEN [ok |-> TRUE, v |-> JArr(<<>>), next |-> c + 1]
         ELSE LET e == parseValue(s, j + 1) IN
              IF ~e.ok THEN ParseFail ELSE parseElements(s, e.next, <<e.v>>)
    ELSE IF s[j] = QT THEN parseStringFrom(s, j + 1, <<>>)
    ELSE IF IsDigit(s[j]) THEN parseNumber(s, j)
    ELSE IF s[j] = "t" THEN parseWord(s, j, <<"t", "r", "u", "e">>, JBool(TRUE))
    ELSE IF s[j] = "f" THEN parseWord(s, j, <<"f", "a", "l", "s", "e">>, JBool(FALSE))
    ELSE IF s[j] = "n" THEN parseWord(s, j, <<"n", "u", "l", "l">>, JNull)
    ELSE ParseFail

\* The outcome of json.Unmarshal given the value e parsed at the start of
\* b: an error unless only white space follows
unmarshalled(b, e) ==
    IF e.ok /\ skipWS(b, e.next) = Len(b) + 1
    THEN [ok |-> TRUE, v |-> e.v]
    ELSE [ok |-> FALSE, v |-> JNull]

\* json.Unmarshal(b, &anyVal): one value, white space around it, nothing
\* else
jsonUnmarshal(b) == unmarshalled(b, parseValue(b, 1))

\* The body of a JSON string literal
RECURSIVE jsonEscape(_)
jsonEscape(v) ==
    IF v = <<>> THEN <<>>
    ELSE (CASE Head(v) = NL -> <<BS, "n">>
            [] Head(v) = TAB -> <<BS, "t">>
            [] Head(v) = QT -> <<BS, QT>>
            [] Head(v) = BS -> <<BS, BS>>
            [] Head(v) = ESC -> <<BS, "u", "0", "0", "1", "b">>
            [] Head(v) = "<" -> <<BS, "u", "0", "0", "3", "c">>
            [] Head(v) = ">" -> <<BS, "u", "0", "0", "3", "e">>
            [] OTHER -> <<Head(v)>>) \o jsonEscape(Tail(v))

jsonQuote(v) == <<QT>> \o jsonEscape(v) \o <<QT>>

\* depth times the indent of two spaces
RECURSIVE indentOf(_)
indentOf(depth) == IF depth = 0 THEN <<>> ELSE <<" ", " ">> \o indentOf(depth - 1)

RECURSIVE marshalIndent(_, _)
RECURSIVE marshalItems(_, _, _)

\* The elements or members from the i-th on, each on a line of its own
marshalItems(v, i, depth) ==
    LET items == IF v.t = "arr" THEN v.a ELSE v.m
        item == IF v.t = "arr"
                THEN marshalIndent(items[i], depth)
                ELSE jsonQuote(items[i].k) \o <<":", " ">> \o marshalIndent(items[i].v, depth)
    IN <<NL>> \o indentOf(depth) \o item
       \o (IF i < Len(items) THEN <<",">> \o marshalItems(v, i + 1, depth) ELSE <<>>)

\* json.MarshalIndent(v, "", "  ") of a parsed document, at nesting depth
marshalIndent(v, depth) ==
    CASE v.t = "null" -> <<"n", "u", "l", "l">>
      [] v.t = "bool" -> IF v.b THEN <<"t", "r", "u", "e">> ELSE <<"f", "a", "l", "s", "e">>
      [] v.t = "num" -> natToBytes(v.n)
      [] v.t = "str" -> jsonQuote(v.s)
      [] v.t = "arr" -> IF v.a = <<>> THEN <<"[", "]">>
                        ELSE <<"[">> \o marshalItems(v, 1, depth + 1)
                             \o <<NL>> \o indentOf(depth) \o <<"]">>
      [] v.t = "obj" -> IF v.m = <<>> THEN <<"{", "}">>
                        ELSE <<"{">> \o marshalItems(v, 1, depth + 1)
                             \o <<NL>> \o indentOf(depth) \o <<"}">>

\* reformatJSONBytes once json.Unmarshal has given r (457-464)
reformatParsed(r) ==
    IF ~r.ok THEN [ok |-> FALSE, s |-> <<>>]
    ELSE [ok |-> TRUE, s |-> marshalIndent(r.v, 0)]

\* reformatJSONBytes with MarshalIndent given the bytes b in place of the
\* parsed value (the text of b comes back as one JSON string)
reformatJSONBytesOfBytes(b) ==
    IF ~jsonUnmarshal(b).ok THEN [ok |-> FALSE, s |-> <<>>]
    ELSE [ok |-> TRUE, s |-> jsonQuote(b)]

\* reformatJSONBytes
reformatJSONBytes(b) == reformatParsed(jsonUnmarshal(b))

-----------------------------------------------------------------------------
(* Values: what a caller can pass as `any`.  A value is a record tagged by  *)
(* t: "nil"; "string" (s); "int" (n); "bool" (b); "pretty" (v: the value a  *)
(* prettyValue wraps); "map" and "slice" (j: the document a map or slice of *)
(* the shapes of lines 377-378 marshals to); "struct" (j: the object a      *)
(* struct marshals to, text: its %v form); "named" (j, text: a value of any *)
(* other type, such as a named integer or a []float64); "error" (s: its     *)
(* message; an errors.New value marshals to {}); "opaque" (text: a value    *)
(* json.Marshal rejects, such as a func).                                   *)

VNil == [t |-> "nil"]
VStr(s) == [t |-> "string", s |-> s]
VInt(n) == [t |-> "int", n |-> n]
VBool(b) == [t |-> "bool", b |-> b]
VPretty(v) == [t |-> "pretty", v |-> v]
VMap(j) == [t |-> "map", j |-> j]
VSlice(j) == [t |-> "slice", j |-> j]
VStruct(j, text) == [t |-> "struct", j |-> j, text |-> text]
VNamed(j, text) == [t |-> "named", j |-> j, text |-> text]
VErr(s) == [t |-> "error", s |-> s]
VOpaque(text) == [t |-> "opaque", text |-> text]

strMissing == <<"<", "m", "i", "s", "s", "i", "n", "g", ">">>
strNil == <<"<", "n", "i", "l", ">">>
strBadKey == <<"!", "B", "A", "D", "K", "E", "Y">>
strErr == <<"e", "r", "r">>

\* strings.TrimSpace
RECURSIVE trimLeft(_)
trimLeft(s) == IF s # <<>> /\ IsJSONSpace(Head(s)) THEN trimLeft(Tail(s)) ELSE s

RECURSIVE trimRight(_)
trimRight(s) ==
    IF s # <<>> /\ IsJSONSpace(s[Len(s)]) THEN trimRight(SubSeq(s, 1, Len(s) - 1)) ELSE s

trimSpace(s) == trimRight(trimLeft(s))

\* json.Marshal(v) of a value that is no built-in scalar
jsonMarshalValue(v) ==
    CASE v.t \in {"map", "slice", "struct", "named"} -> [ok |-> TRUE, j |-> v.j]
      [] v.t = "error" -> [ok |-> TRUE, j |-> JObj(<<>>)]
      [] v.t = "pretty" -> [ok |-> TRUE, j |-> JObj(<<>>)]
      [] OTHER -> [ok |-> FALSE, j |-> JNull]

\* The %v form of a parsed document held in a map or slice
RECURSIVE goFormatDoc(_)
RECURSIVE goFormatItems(_, _)
goFormatItems(v, i) ==
    LET items == IF v.t = "arr" THEN v.a ELSE v.m
        item == IF v.t = "arr" THEN goFormatDoc(items[i])
                ELSE items[i].k \o <<":">> \o goFormatDoc(items[i].v)
    IN IF i > Len(items) THEN <<>>
       ELSE item \o (IF i < Len(items) THEN <<" ">> ELSE <<>>) \o goFormatItems(v, i + 1)

goFormatDoc(v) ==
    CASE v.t = "null" -> strNil
      [] v.t = "bool" -> IF v.b THEN <<"t", "r", "u", "e">> ELSE <<"f", "a", "l", "s", "e">>
      [] v.t = "num" -> natToBytes(v.n)
      [] v.t = "str" -> v.s
      [] v.t = "arr" -> <<"[">> \o goFormatItems(v, 1) \o <<"]">>
      [] v.t = "obj" -> <<"m", "a", "p", "[">> \o goFormatItems(v, 1) \o <<"]">>

\* fmt.Sprint(v) of one value (a prettyValue is left out: its String method
\* is not modelled)
goSprintValue(v) ==
    CASE v.t = "nil" -> strNil
      [] v.t = "string" -> v.s
      [] v.t = "int" -> natToBytes(v.n)
      [] v.t = "bool" -> IF v.b THEN <<"t", "r", "u", "e">> ELSE <<"f", "a", "l", "s", "e">>
      [] v.t = "error" -> v.s
      [] v.t \in {"map", "slice"} -> goFormatDoc(v.j)
      [] v.t \in {"struct", "named", "opaque"} -> v.text

\* fmt.Sprint(args...): the operands' forms one after another, a space
\* between two operands when neither is a string
RECURSIVE goSprint(_)
goSprint(args) ==
    IF args = <<>> THEN <<>>
    ELSE IF Len(args) = 1 THEN goSprintValue(args[1])
    ELSE goSprintValue(args[1])
         \o (IF args[1].t # "string" /\ args[2].t # "string" THEN <<" ">> ELSE <<>>)
         \o goSprint(Tail(args))

\* serialize.Pretty(v) (src/unnamed/part_003 699-727): MarshalIndent with
\* two spaces, or the fallback text with the error appended
serializePretty(v) ==
    LET m == jsonMarshalValue(v) IN
    IF m.ok THEN marshalIndent(m.j, 0)
    ELSE goSprintValue(v) \o <<" ", "(", "s", "e", "r", "i", "a", "l", "i", "z", "e", " ",
                               "e", "r", "r", "o", "r", ")">>

\* isStructType
isStructType(v) ==
    IF v.t = "nil" THEN FALSE
    ELSE IF v.t \in {"string", "int", "bool"} THEN FALSE
    ELSE LET m == jsonMarshalValue(v) IN m.ok /\ m.j.t = "obj"

\* The test of lines 366-367 on the trimmed string
looksDelimited(trimmed) ==
    /\ trimmed # <<>>
    /\ \/ Head(trimmed) = "{" /\ trimmed[Len(trimmed)] = "}"
       \/ Head(trimmed) = "[" /\ trimmed[Len(trimmed)] = "]"

\* The string branch of autoFormatJSON (364-373) for the string value v,
\* trimmed being strings.TrimSpace of it: the reformatted text when trimmed
\* is delimited and parses, else v
reformatted(v, r) == IF r.ok THEN VStr(r.s) ELSE v

autoFormatString(v, trimmed) ==
    IF looksDelimited(trimmed) THEN reformatted(v, reformatJSONBytes(trimmed)) ELSE v

\* autoFormatJSON without the test for a prettyValue
autoFormatJSONNoMarker(v) ==
    IF v.t = "nil" THEN v
    ELSE IF v.t = "string" THEN autoFormatString(v, trimSpace(v.s))
    ELSE IF v.t \in {"map", "slice"} THEN VStr(serializePretty(v))
    ELSE IF isStructType(v) THEN VStr(serializePretty(v))
    ELSE v

\* autoFormatJSON
autoFormatJSON(v) ==
    IF v.t = "nil" THEN v
    ELSE IF v.t = "pretty" THEN v
    ELSE IF v.t = "string" THEN autoFormatString(v, trimSpace(v.s))
    ELSE IF v.t \in {"map", "slice"} THEN VStr(serializePretty(v))
    ELSE IF isStructType(v) THEN VStr(serializePretty(v))
    ELSE v

\* convertKVs with autoFormatJSON run on every element
convertKVsEvery(kv) ==
    LET e == IF Len(kv) % 2 = 1 THEN Append(kv, VStr(strMissing)) ELSE kv
    IN [i \in 1..Len(e) |-> autoFormatJSON(e[i])]

\* convertKVs: the list made even with "<missing>", every value (the
\* elements at the odd 0-based indices) passed through autoFormatJSON
convertKVs(kv) ==
    LET e == IF Len(kv) % 2 = 1 THEN Append(kv, VStr(strMissing)) ELSE kv
    IN [i \in 1..Len(e) |-> IF i % 2 = 0 THEN autoFormatJSON(e[i]) ELSE e[i]]

\* slog's reading of a With or Log argument list: a string is a key and
\* takes the next element as its value, a last lone string is a value under
\* !BADKEY, and any other element is a value under !BADKEY by itself
RECURSIVE argsToAttrs(_)
argsToAttrs(args) ==
    IF args = <<>> THEN <<>>
    ELSE IF args[1].t = "string"
    THEN IF Len(args) = 1 THEN <<[k |-> strBadKey, v |-> args[1]]>>
         ELSE <<[k |-> args[1].s, v |-> args[2]]>> \o argsToAttrs(SubSeq(args, 3, Len(args)))
    ELSE <<[k |-> strBadKey, v |-> args[1]]>> \o argsToAttrs(Tail(args))

-----------------------------------------------------------------------------
(* Go slices.  A slice is a view [arr, len] of a backing array of the heap  *)
(* `arrays`; the array's length is the slice's capacity.  The nil slice has *)
(* no array.                                                                *)

NilSlice == [arr |-> 0, len |-> 0]

\* The elements a slice shows
sliceElems(arrs, sl) == IF sl.arr = 0 THEN <<>> ELSE SubSeq(arrs[sl.arr], 1, sl.len)

sliceCap(arrs, sl) == IF sl.arr = 0 THEN 0 ELSE Len(arrs[sl.arr])

\* append(sl, xs...): in place when the capacity suffices, else into a new
\* array of twice the capacity (of the length needed when that is more);
\* zero fills the cells not yet used.  The result is the heap and the slice.
goAppend(arrs, sl, xs, zero) ==
    LET n == sl.len + Len(xs)
        cap == sliceCap(arrs, sl)
    IN
    IF xs = <<>> THEN [arrays |-> arrs, s |-> sl]
    ELSE IF n <= cap
    THEN [arrays |-> [arrs EXCEPT ![sl.arr] =
                        [i \in 1..cap |->
                            IF i > sl.len /\ i <= n THEN xs[i - sl.len] ELSE @[i]]],
          s |-> [arr |-> sl.arr, len |-> n]]
    ELSE
      LET newcap == IF n > 2 * cap THEN n ELSE 2 * cap
          old == sliceElems(arrs, sl)
      IN [arrays |-> Append(arrs,
                            [i \in 1..newcap |->
                                IF i <= sl.len THEN old[i]
                                ELSE IF i <= n THEN xs[i - sl.len]
                                ELSE zero]),
          s |-> [arr |-> Len(arrs) + 1, len |-> n]]

-----------------------------------------------------------------------------
(* Options, Setup and the handlers: vlog.go 52-102, 516-529, 596-611 *)

\* The four handlers Setup can make: slog's JSON handler, slog's text
\* handler, and the package's plainTextHandler and colorTextHandler
HandlerKinds == {"json", "text", "plain", "color"}

\* newColorTextHandler: a handler with a syncWriter of its own (lock w)
newColorTextHandler(level, w) ==
    [kind |-> "color", level |-> level, attrs |-> NilSlice, groups |-> NilSlice,
     unescape |-> FALSE, w |-> w]

\* newPlainTextHandler: slog's text handler unless the package flag
\* doUnescape (du) is set, else a plainTextHandler with unescape: true
newPlainTextHandler(level, w, du) ==
    IF ~du
    THEN [kind |-> "text", level |-> level, attrs |-> NilSlice, groups |-> NilSlice,
          unescape |-> FALSE, w |-> w]
    ELSE [kind |-> "plain", level |-> level, attrs |-> NilSlice, groups |-> NilSlice,
          unescape |-> TRUE, w |-> w]

\* The switch of Setup with the case of ColorizeLine put before that of JSON
setupHandlerColorFirst(opts, w, du) ==
    LET level == slogLevelFromString(opts.Level) IN
    IF opts.ColorizeLine THEN newColorTextHandler(level, w)
    ELSE IF opts.JSON
    THEN [kind |-> "json", level |-> level, attrs |-> NilSlice, groups |-> NilSlice,
          unescape |-> FALSE, w |-> w]
    ELSE newPlainTextHandler(level, w, du)

\* The switch of Setup (90-98); du is the package flag doUnescape, which
\* Setup has just assigned
setupHandler(opts, w, du) ==
    LET level == slogLevelFromString(opts.Level) IN
    IF opts.JSON
    THEN [kind |-> "json", level |-> level, attrs |-> NilSlice, groups |-> NilSlice,
          unescape |-> FALSE, w |-> w]
    ELSE IF opts.ColorizeLine THEN newColorTextHandler(level, w)
    ELSE newPlainTextHandler(level, w, du)

\* Handler.Enabled of every kind: the two custom handlers delegate to a
\* text handler over the same options (531-535, 607-611)
handlerEnabled(h, level) == level >= h.level

\* Setup(opts), run without interruption
Setup(opts) ==
    /\ addCaller' = opts.AddCaller
    /\ doUnescape' = opts.UnescapeMultiline
    /\ handlers' = Append(handlers,
                          setupHandler(opts, Len(mu) + 1, opts.UnescapeMultiline))
    /\ mu' = Append(mu, 0)
    /\ base' = Len(handlers) + 1

-----------------------------------------------------------------------------
(* Derivation: WithAttrs and WithGroup, vlog.go 566-576, 645-655.  An       *)
(* attribute is a record [k, v] of a key (a byte string) and a value.  An    *)
(* attribute held by slog's JSON handler has the field depth as well: the   *)
(* number of groups that were open when it was added.                       *)

ZeroAttr == [k |-> <<>>, v |-> VNil]
ZeroGroup == <<>>

\* The prefix the open groups give a key: "g1.g2."
RECURSIVE groupPrefix(_)
groupPrefix(gs) ==
    IF gs = <<>> THEN <<>> ELSE Head(gs) \o <<".">> \o groupPrefix(Tail(gs))

qualifyAttrs(gs, attrs) ==
    [i \in 1..Len(attrs) |-> [k |-> groupPrefix(gs) \o attrs[i].k, v |-> attrs[i].v]]

\* The attributes as slog's JSON handler keeps them, n groups being open
nestAttrs(n, attrs) ==
    [i \in 1..Len(attrs) |-> [k |-> attrs[i].k, v |-> attrs[i].v, depth |-> n]]

\* What a handler of some kind adds to its list for attrs, gs being its
\* groups
keptAttrs(kind, gs, attrs) ==
    CASE kind = "text" -> qualifyAttrs(gs, attrs)
      [] kind = "json" -> nestAttrs(Len(gs), attrs)
      [] OTHER -> attrs

\* WithAttrs without the copy nh := *h: the receiver itself gets the
\* longer list and is returned
handlerWithAttrsInPlace(hs, arrs, id, attrs) ==
    LET h == hs[id]
        add == keptAttrs(h.kind, sliceElems(arrs, h.groups), attrs)
        c1 == goAppend(arrs, NilSlice, sliceElems(arrs, h.attrs), ZeroAttr)
        c2 == goAppend(c1.arrays, c1.s, add, ZeroAttr)
    IN [handlers |-> [hs EXCEPT ![id].attrs = c2.s], arrays |-> c2.arrays, id |-> id]

\* h.WithAttrs(attrs) on the handler with id `id` of heap hs, arrs:
\* nh := *h; nh.attrs = append(append([]slog.Attr(nil), h.attrs...),
\* attrs...); return &nh.  The result is the heap and the id of the handler
\* returned.  slog's own handlers clone themselves likewise, and keep each
\* attribute as the groups open when it was added make it.
handlerWithAttrs(hs, arrs, id, attrs) ==
    LET h == hs[id]
        add == keptAttrs(h.kind, sliceElems(arrs, h.groups), attrs)
        c1 == goAppend(arrs, NilSlice, sliceElems(arrs, h.attrs), ZeroAttr)
        c2 == goAppend(c1.arrays, c1.s, add, ZeroAttr)
    IN [handlers |-> Append(hs, [h EXCEPT !.attrs = c2.s]),
        arrays |-> c2.arrays, id |-> Len(hs) + 1]

\* h.WithGroup(name): nh := *h; nh.groups = append(append([]string(nil),
\* h.groups...), name); return &nh
handlerWithGroup(hs, arrs, id, name) ==
    LET h == hs[id]
        c1 == goAppend(arrs, NilSlice, sliceElems(arrs, h.groups), ZeroGroup)
        c2 == goAppend(c1.arrays, c1.s, <<name>>, ZeroGroup)
    IN [handlers |-> Append(hs, [h EXCEPT !.groups = c2.s]),
        arrays |-> c2.arrays, id |-> Len(hs) + 1]

-----------------------------------------------------------------------------
(* Rendering and Handle: vlog.go 538-564, 614-643, 657-682.  An event       *)
(* (slog.Record) is a record [level, msg, attrs].                           *)

\* ANSI codes
ansiReset == <<ESC, "[", "0", "m">>
ansiRed == <<ESC, "[", "3", "1", "m">>
ansiGreen == <<ESC, "[", "3", "2", "m">>
ansiYellow == <<ESC, "[", "3", "3", "m">>
ansiBlue == <<ESC, "[", "3", "4", "m">>

\* levelColorSlog
levelColorSlog(lvl) ==
    IF lvl <= LevelDebug THEN ansiBlue
    ELSE IF lvl < LevelWarn THEN ansiGreen
    ELSE IF lvl < LevelError THEN ansiYellow
    ELSE ansiRed

\* slog.Level.String() of the four levels
levelString(lvl) ==
    CASE lvl = LevelDebug -> <<"D", "E", "B", "U", "G">>
      [] lvl = LevelInfo -> <<"I", "N", "F", "O">>
      [] lvl = LevelWarn -> <<"W", "A", "R", "N">>
      [] lvl = LevelError -> <<"E", "R", "R", "O", "R">>

\* The text handler quotes a value that is empty or holds a space, an =, a
\* quote or a control character; a backslash alone does not ask for quotes
needsQuoting(v) ==
    v = <<>> \/ \E i \in 1..Len(v) : v[i] \in {" ", "=", QT, NL, TAB, ESC}

\* strconv.Quote
RECURSIVE quoteBody(_)
quoteBody(v) ==
    IF v = <<>> THEN <<>>
    ELSE (CASE Head(v) = NL -> <<BS, "n">>
            [] Head(v) = TAB -> <<BS, "t">>
            [] Head(v) = QT -> <<BS, QT>>
            [] Head(v) = BS -> <<BS, BS>>
            [] Head(v) = ESC -> <<BS, "x", "1", "b">>
            [] OTHER -> <<Head(v)>>) \o quoteBody(Tail(v))

strconvQuote(v) == <<QT>> \o quoteBody(v) \o <<QT>>

textValue(v) == IF needsQuoting(v) THEN strconvQuote(v) ELSE v

\* prettyValue.String (422-453) of the wrapped value v, the YAML branches
\* left out: "null" for nil, the reformatted text for a string that starts
\* with { or [ and parses, else the string; MarshalIndent for a value that
\* marshals, else its %+v form
prettyOfString(v, trimmed) ==
    IF trimmed # <<>> /\ Head(trimmed) \in {"{", "["}
    THEN reformatted(v, reformatJSONBytes(trimmed)).s
    ELSE v.s

prettyString(v) ==
    IF v.t = "nil" THEN <<"n", "u", "l", "l">>
    ELSE IF v.t = "string" THEN prettyOfString(v, trimSpace(v.s))
    ELSE IF v.t \in {"int", "bool"} THEN goSprintValue(v)
    ELSE serializePretty(v)

\* The text of a value as slog resolves it: a prettyValue by its LogValue
\* (418-420), any other by its string or its %+v form
valueString(v) == IF v.t = "pretty" THEN prettyString(v.v) ELSE goSprintValue(v)

\* slog elides an attribute with an empty key and a nil value
isEmptyAttr(a) == a.k = <<>> /\ a.v.t = "nil"

\* key=value for each attribute, a space before each; keys and values are
\* quoted when they need it
RECURSIVE textAttrs(_)
textAttrs(attrs) ==
    IF attrs = <<>> THEN <<>>
    ELSE (IF isEmptyAttr(Head(attrs)) THEN <<>>
          ELSE <<" ">> \o textValue(Head(attrs).k) \o <<"=">>
               \o textValue(valueString(Head(attrs).v)))
         \o textAttrs(Tail(attrs))

\* The line slog's text handler writes: time, level, msg, the handler's
\* attributes, the event's attributes, newline.  T stands for the RFC3339
\* time.
textLine(level, msg, pre, recAttrs) ==
    <<"t", "i", "m", "e", "=", "T", " ", "l", "e", "v", "e", "l", "=">>
    \o levelString(level)
    \o <<" ", "m", "s", "g", "=">> \o textValue(msg)
    \o textAttrs(pre) \o textAttrs(recAttrs) \o <<NL>>

\* The body of a string literal as slog's JSON handler writes it: as
\* encoding/json does with HTML escaping off
RECURSIVE slogJSONEscape(_)
slogJSONEscape(v) ==
    IF v = <<>> THEN <<>>
    ELSE (CASE Head(v) = NL -> <<BS, "n">>
            [] Head(v) = TAB -> <<BS, "t">>
            [] Head(v) = QT -> <<BS, QT>>
            [] Head(v) = BS -> <<BS, BS>>
            [] Head(v) = ESC -> <<BS, "u", "0", "0", "1", "b">>
            [] OTHER -> <<Head(v)>>) \o slogJSONEscape(Tail(v))

slogJSONQuote(v) == <<QT>> \o slogJSONEscape(v) \o <<QT>>

\* json.Marshal of a document, on one line, HTML escaping off
RECURSIVE marshalCompact(_)
RECURSIVE marshalCompactItems(_, _)
marshalCompactItems(v, i) ==
    LET items == IF v.t = "arr" THEN v.a ELSE v.m
        item == IF v.t = "arr" THEN marshalCompact(items[i])
                ELSE slogJSONQuote(items[i].k) \o <<":">> \o marshalCompact(items[i].v)
    IN IF i > Len(items) THEN <<>>
       ELSE item \o (IF i < Len(items) THEN <<",">> ELSE <<>>) \o marshalCompactItems(v, i + 1)

marshalCompact(v) ==
    CASE v.t = "null" -> <<"n", "u", "l", "l">>
      [] v.t = "bool" -> IF v.b THEN <<"t", "r", "u", "e">> ELSE <<"f", "a", "l", "s", "e">>
      [] v.t = "num" -> natToBytes(v.n)
      [] v.t = "str" -> slogJSONQuote(v.s)
      [] v.t = "arr" -> <<"[">> \o marshalCompactItems(v, 1) \o <<"]">>
      [] v.t = "obj" -> <<"{">> \o marshalCompactItems(v, 1) \o <<"}">>

\* A value as slog's JSON handler writes it: strings, error messages and
\* resolved prettyValues as string literals, integers and booleans bare,
\* nil as null, any other value by json.Marshal (a string that starts with
\* !ERROR when that fails)
valueJSON(v) ==
    CASE v.t \in {"string", "error", "pretty"} -> slogJSONQuote(valueString(v))
      [] v.t \in {"int", "bool"} -> goSprintValue(v)
      [] v.t = "nil" -> <<"n", "u", "l", "l">>
      [] v.t \in {"map", "slice", "struct", "named"} -> marshalCompact(v.j)
      [] v.t = "opaque" -> slogJSONQuote(<<"!", "E", "R", "R", "O", "R">>)

\* The members slog's JSON handler writes for items (attributes with the
\* field depth, depths not falling) under the groups gs, cur groups having
\* been opened so far; first tells that no member precedes in the object
\* at hand.  A group is opened as "name":{ just before the first attribute
\* inside it, and every group opened is closed at the end.
RECURSIVE jsonItems(_, _, _, _)
jsonItems(gs, items, cur, first) ==
    LET sep == IF first THEN <<>> ELSE <<",">> IN
    IF items = <<>> THEN [i \in 1..cur |-> "}"]
    ELSE IF isEmptyAttr(Head(items)) THEN jsonItems(gs, Tail(items), cur, first)
    ELSE IF cur < Head(items).depth
    THEN sep \o slogJSONQuote(gs[cur + 1]) \o <<":", "{">> \o jsonItems(gs, items, cur + 1, TRUE)
    ELSE sep \o slogJSONQuote(Head(items).k) \o <<":">> \o valueJSON(Head(items).v)
         \o jsonItems(gs, Tail(items), cur, FALSE)

\* The line slog's JSON handler writes: time, level, msg, then the
\* attributes, those of a group inside an object under the group's name
jsonLine(level, msg, gs, items) ==
    <<"{", QT, "t", "i", "m", "e", QT, ":", QT, "T", QT, ",",
      QT, "l", "e", "v", "e", "l", QT, ":", QT>> \o levelString(level)
    \o <<QT, ",", QT, "m", "s", "g", QT, ":">> \o slogJSONQuote(msg)
    \o jsonItems(gs, items, 0, FALSE) \o <<"}", NL>>

\* The buffer Handle renders (538-555, 614-631): the two custom handlers
\* give a fresh text handler first all their groups and then all their
\* attributes
renderRecord(arrs, h, rec) ==
    LET gs == sliceElems(arrs, h.groups)
        as == sliceElems(arrs, h.attrs)
        pre == IF h.kind \in {"color", "plain"} THEN qualifyAttrs(gs, as) ELSE as
        own == qualifyAttrs(gs, rec.attrs)
    IN IF h.kind = "json"
       THEN jsonLine(rec.level, rec.msg, gs, as \o nestAttrs(Len(gs), rec.attrs))
       ELSE textLine(rec.level, rec.msg, pre, own)

\* bytes.Split(b, []byte{'\n'})
RECURSIVE bytesSplitNL(_)
bytesSplitNL(b) ==
    LET i == bytesIndex(b, <<NL>>) IN
    IF i = -1 THEN <<b>>
    ELSE <<Slice(b, 0, i)>> \o bytesSplitNL(Slice(b, i + 1, Len(b)))

RECURSIVE colorLines(_, _)
colorLines(lines, color) ==
    IF lines = <<>> THEN <<>>
    ELSE color \o Head(lines) \o ansiReset
         \o (IF Len(lines) > 1 THEN <<NL>> ELSE <<>>)
         \o colorLines(Tail(lines), color)

\* applyMultilineColor with the buffer wrapped once as a whole
applyMultilineColorWhole(b, color) ==
    IF Len(b) = 0 THEN b
    ELSE color \o b \o ansiReset

\* applyMultilineColor
applyMultilineColor(b, color) ==
    IF Len(b) = 0 THEN b
    ELSE
      LET hadNL == At(b, Len(b) - 1) = NL
          body == IF hadNL THEN Slice(b, 0, Len(b) - 1) ELSE b
      IN colorLines(bytesSplitNL(body), color) \o (IF hadNL THEN <<NL>> ELSE <<>>)

\* What Handle does with the rendered buffer b (557-563, 632-640): the
\* colour handler unescapes it when the package flag doUnescape (du) is set
\* and colours it, the plain handler unescapes it when its own flag is set
finishLine(h, level, b, du) ==
    IF h.kind = "color"
    THEN applyMultilineColor(IF du THEN unescapeMultilineAttrs(b) ELSE b,
                             levelColorSlog(level))
    ELSE IF h.kind = "plain"
    THEN (IF h.unescape THEN unescapeMultilineAttrs(b) ELSE b)
    ELSE b

\* The bytes Handle hands to Write for event rec on handler h, the package
\* flag doUnescape being du; no bytes when the level is not enabled (Handle
\* returns nil without writing)
handleBytes(arrs, h, rec, du) ==
    IF ~handlerEnabled(h, rec.level) THEN <<>>
    ELSE finishLine(h, rec.level, renderRecord(arrs, h, rec), du)

-----------------------------------------------------------------------------
(* The entry points: vlog.go 139-290, 790-816.  Each operator gives the     *)
(* bytes put on the stream (out) and the work done, in order (work):        *)
(* "Sprint" for fmt.Sprint or fmt.Sprintf of the message, "Enabled" for the *)
(* handler's level check, "findExternalCaller", "convertKVs" for a          *)
(* conversion that runs autoFormatJSON on a value, "WithGroup" and          *)
(* "WithAttrs" for a derivation, "Handle".  Arguments are lists of values.  *)

\* The attribute writeRecord adds for the caller (255-258)
CallerAttr ==
    [k |-> <<"c", "a", "l", "l", "e", "r">>, v |-> VStr(<<"f", ".", "g", "o", ":", "1">>)]

\* The loop of 283-289 with every key that is no string replaced by
\* "!BADKEY"
RECURSIVE kvAttrsBadKey(_)
kvAttrsBadKey(kvs) ==
    IF kvs = <<>> THEN <<>>
    ELSE LET key == IF kvs[1].t = "string" THEN kvs[1].s ELSE strBadKey
         IN <<[k |-> key, v |-> kvs[2]]>> \o kvAttrsBadKey(SubSeq(kvs, 3, Len(kvs)))

\* The loop of 283-289 over the converted list: the key is the element
\* itself when it is a non-empty string, else its fmt.Sprint form
RECURSIVE kvAttrs(_)
kvAttrs(kvs) ==
    IF kvs = <<>> THEN <<>>
    ELSE LET key == IF kvs[1].t = "string" /\ kvs[1].s # <<>>
                    THEN kvs[1].s
                    ELSE goSprintValue(kvs[1])
         IN <<[k |-> key, v |-> kvs[2]]>> \o kvAttrs(SubSeq(kvs, 3, Len(kvs)))

\* The record writeRecord and writeRecordWithAttrs hand to Handle (252-258,
\* 274-289): the caller attribute when the package flag addCaller (ac) is
\* set, then one attribute for each pair of the converted list
newRecord(level, msg, kvs, ac) ==
    [level |-> level, msg |-> msg,
     attrs |-> (IF ac THEN <<CallerAttr>> ELSE <<>>) \o kvAttrs(convertKVs(kvs))]

\* writeRecord (kvs empty) and writeRecordWithAttrs on handler h; ac is the
\* package flag addCaller, du the package flag doUnescape
writeRecordWithAttrs(arrs, h, level, msg, kvs, ac, du) ==
    IF ~handlerEnabled(h, level)
    THEN [out |-> <<>>, work |-> <<"Enabled">>]
    ELSE [out |-> handleBytes(arrs, h, newRecord(level, msg, kvs, ac), du),
          work |-> <<"Enabled">>
                   \o (IF ac THEN <<"findExternalCaller">> ELSE <<>>)
                   \o (IF kvs # <<>> THEN <<"convertKVs">> ELSE <<>>)
                   \o <<"Handle">>]

\* The outcome r of the call that follows fmt.Sprint or fmt.Sprintf, with
\* that formatting put first
sprintThen(r) == [out |-> r.out, work |-> <<"Sprint">> \o r.work]

\* logArgs(level, args...) (222-234): nothing without arguments, else
\* fmt.Sprint(args[0]), then writeRecord or writeRecordWithAttrs on base
\* with the arguments after the first
logArgs(arrs, h, level, args, ac, du) ==
    IF args = <<>> THEN [out |-> <<>>, work |-> <<>>]
    ELSE sprintThen(writeRecordWithAttrs(arrs, h, level, goSprintValue(args[1]),
                                         Tail(args), ac, du))

\* Debugf .. Errorf (161-164): fmt.Sprintf is the argument of logMsg, which
\* calls writeRecord on base (236-239)
logMsgf(arrs, h, level, msg, ac, du) ==
    sprintThen(writeRecordWithAttrs(arrs, h, level, msg, <<>>, ac, du))

\* The record slog's Logger.Log makes of msg and args
slogRecord(level, msg, args) ==
    [level |-> level, msg |-> msg, attrs |-> argsToAttrs(args)]

\* slog's Logger.Log(ctx, level, msg, args...): the level check, then the
\* record with the attributes slog reads from args, and Handle
slogLog(arrs, h, level, msg, args, du) ==
    IF ~handlerEnabled(h, level)
    THEN [out |-> <<>>, work |-> <<"Enabled">>]
    ELSE [out |-> handleBytes(arrs, h, slogRecord(level, msg, args), du),
          work |-> <<"Enabled", "Handle">>]

\* SugaredLogger.Debug .. Error reading its arguments as the package's
\* functions do: the first is the message, the others are keys and values
sugaredLogKeyValues(arrs, h, level, args, du) ==
    sprintThen(slogLog(arrs, h, level,
                       IF args = <<>> THEN <<>> ELSE goSprintValue(args[1]),
                       IF args = <<>> THEN <<>> ELSE convertKVs(Tail(args)), du))

\* SugaredLogger.Debug .. Error (186-197): fmt.Sprint(args...) is the
\* message argument of s.logger.Log
sugaredLog(arrs, h, level, args, du) ==
    sprintThen(slogLog(arrs, h, level, goSprint(args), <<>>, du))

-----------------------------------------------------------------------------
(* The logr sink: vlog.go 771-829 *)

\* slogSink.Enabled reporting true whatever the verbosity
slogSinkEnabledAlways(h, level) == TRUE

\* slogSink.Enabled on a sink over handler h
slogSinkEnabled(h, level) == handlerEnabled(h, sinkLevel(level))

\* if s.name != "" { l = l.WithGroup(s.name) } (792-794), on the logger
\* over handler id; the result is the heap and the handler of l
sinkWithGroup(hs, arrs, id, name) ==
    IF name # <<>>
    THEN handlerWithGroup(hs, arrs, id, name)
    ELSE [handlers |-> hs, arrays |-> arrs, id |-> id]

\* if len(s.kv) > 0 { l = l.With(convertKVs(s.kv)...) } (795-797), g being
\* the heap and the handler of l
sinkWithValues(g, skv) ==
    IF skv # <<>>
    THEN handlerWithAttrs(g.handlers, g.arrays, g.id, argsToAttrs(convertKVs(skv)))
    ELSE g

\* With(kv...) of the package and of a SugaredLogger (178-181, 210-212) on
\* the logger over handler id: slog's Logger.With of the converted list,
\* which returns the logger itself for an empty list
sugaredWith(hs, arrs, id, kv) ==
    sinkWithValues([handlers |-> hs, arrays |-> arrs, id |-> id], kv)

\* The logger Info and Error log through (791-797, 807-813): that of the
\* sink over handler id, with WithGroup when the sink is named and With of
\* the converted values when it has any
slogSinkLogger(hs, arrs, id, name, skv) ==
    sinkWithValues(sinkWithGroup(hs, arrs, id, name), skv)

\* The work of Info or Error before l.Log
sinkWork(name, skv, kvs) ==
    (IF name # <<>> THEN <<"WithGroup">> ELSE <<>>)
    \o (IF skv # <<>> THEN <<"convertKVs", "WithAttrs">> ELSE <<>>)
    \o (IF kvs # <<>> THEN <<"convertKVs">> ELSE <<>>)

\* l.Log(ctx, level, msg, args...) on the logger a that slogSinkLogger
\* gave; the result has the heap as well
sinkLogged(a, r, work) ==
    [handlers |-> a.handlers, arrays |-> a.arrays, out |-> r.out, work |-> work \o r.work]

sinkLog(a, level, msg, args, du, work) ==
    sinkLogged(a, slogLog(a.arrays, a.handlers[a.id], level, msg, args, du), work)

\* slogSink.Info(level, msg, kvs...) (790-804) of a sink over handler id
\* with name `name` and values skv: Log of the message with the converted
\* arguments at the level of the verbosity
slogSinkInfo(hs, arrs, id, name, skv, level, msg, kvs, du) ==
    sinkLog(slogSinkLogger(hs, arrs, id, name, skv), sinkLevel(level), msg,
            convertKVs(kvs), du, sinkWork(name, skv, kvs))

\* slogSink.Error(err, msg, kvs...) (806-816): Log at LevelError with the
\* converted arguments and then "err", err
slogSinkError(hs, arrs, id, name, skv, err, msg, kvs, du) ==
    sinkLog(slogSinkLogger(hs, arrs, id, name, skv), LevelError, msg,
            convertKVs(kvs) \o <<VStr(strErr), err>>, du, sinkWork(name, skv, kvs))

-----------------------------------------------------------------------------
(* The state before anything has run: no Setup yet, nothing written, every  *)
(* scenario at its start.                                                   *)

PkgIdle ==
    /\ base = 0
    /\ addCaller = FALSE
    /\ doUnescape = FALSE
    /\ handlers = <<>>
    /\ arrays = <<>>
    /\ mu = <<>>
    /\ stdout = <<>>
    /\ once = "new"

EscIdle ==
    /\ escIn = <<>>
    /\ escBuf = <<>>
    /\ escCursor = 0
    /\ escPc = "build"
    /\ escIters = 0
    /\ escN = 0

LvlIdle ==
    /\ lvlIn = <<>>
    /\ lvlV = 0
    /\ lvlRes = 0
    /\ lvlPc = "start"

\* The goroutines of the writers scenario, and the words their events say
NumWriters == 2
Writers == 1..NumWriters
WrWords == <<"a", "b">>

WrIdle ==
    /\ wrPc = [g \in Writers |-> "start"]
    /\ wrH = [g \in Writers |-> 0]
    /\ wrBuf = [g \in Writers |-> <<>>]
    /\ wrPos = [g \in Writers |-> 0]
    /\ wrSent = [g \in Writers |-> 0]

\* The goroutines of the first-use scenario
NumCallers == 2
Callers == 1..NumCallers

EnIdle ==
    /\ enPc = [g \in Callers |-> "start"]
    /\ enVia = [g \in Callers |-> "none"]
    /\ enView = [g \in Callers |-> FALSE]
    /\ enSeen = [g \in Callers |-> 0]

NoRecord == [level |-> 0, msg |-> <<>>, attrs |-> <<>>]

StIdle ==
    /\ stPc = "run"
    /\ stOpts = <<>>
    /\ stHandles = <<>>
    /\ stUsed = 0
    /\ stRec = NoRecord
    /\ stOut = <<>>

\* The goroutines of the derivation scenario
Derivers == {"d1", "d2"}

NoCall == [parent |-> 0, op |-> "none", arg |-> <<>>]

DvIdle ==
    /\ dvPc = [g \in Derivers |-> "idle"]
    /\ dvCall = [g \in Derivers |-> NoCall]
    /\ dvCalls = {}

AbIdle ==
    /\ abPc = "start"
    /\ abCall = [entry |-> "none", level |-> 0, kvs |-> <<>>]
    /\ abTrace = <<>>

FmtIdle ==
    /\ fmtStr = <<>>
    /\ fmtN = 0
    /\ fmtIn = VNil
    /\ fmtOut = VNil
    /\ fmtPc = "idle"

ColIdle ==
    /\ colIn = <<>>
    /\ colN = 0
    /\ colLevel = 0
    /\ colOut = <<>>
    /\ colPc = "idle"

\* No record: the call made none
EmNoRecord == [level |-> 0, msg |-> <<>>, attrs |-> <<>>, made |-> FALSE]

EmNoCall ==
    [entry |-> "none", level |-> 0, args |-> <<>>, name |-> <<>>, skv |-> <<>>,
     err |-> VNil, parent |-> 0, child |-> 0]

EmIdle ==
    /\ emPc = "start"
    /\ emCall = EmNoCall
    /\ emRec = EmNoRecord
    /\ emOut = <<>>

\* The sink Logr() gives: no name, no values (127-131)
SkRoot == [name |-> <<>>, kv |-> NilSlice]

SkNoCall == [op |-> "none", sink |-> 0, child |-> 0, arg |-> <<>>, after |-> <<>>]

SkIdle ==
    /\ skSinks = <<SkRoot>>
    /\ skArrays = <<>>
    /\ skNames = << <<>> >>
    /\ skLast = SkNoCall

XsIdle ==
    /\ xsPc = "start"
    /\ xsOpts = [Level |-> <<>>, JSON |-> FALSE, AddCaller |-> FALSE,
                 ColorizeLine |-> FALSE, UnescapeMultiline |-> FALSE]
    /\ xsBase = 0

ClIdle ==
    /\ clPc = "start"
    /\ clCall = [entry |-> "none", level |-> 0, stack |-> <<>>]
    /\ clRec = EmNoRecord
    /\ clOut = <<>>

FwNoCall ==
    [fn |-> "none", args |-> FALSE, handled |-> FALSE, err |-> FALSE, outcome |-> "none"]

FwIdle ==
    /\ fwPc = "start"
    /\ fwFails = FALSE
    /\ fwCall = FwNoCall

Init == PkgIdle /\ EscIdle /\ LvlIdle /\ WrIdle /\ EnIdle /\ StIdle /\ DvIdle /\ AbIdle /\ FmtIdle /\ ColIdle /\ EmIdle /\ SkIdle /\ XsIdle /\ ClIdle /\ FwIdle

-----------------------------------------------------------------------------
(* The EscapeProcessor run on rendered lines.  A line is put together from  *)
(* at most MaxFrags fragments of rendered text: unquoted attributes, quoted *)
(* values with and without escapes, an unterminated quote, a bare `\n`.     *)

MaxFrags == 3

EscFragments ==
    { <<"t", "=", "1", " ">>,                          \* t=1
      <<"a", "=", QT, "x", BS, "n", "y", QT>>,         \* a="x\ny"
      <<"b", "=", QT, "o", "k", QT>>,                  \* b="ok"
      <<"c", "=", QT, BS, QT, BS, "n", QT>>,           \* c="\"\n"
      <<"d", "=", QT, BS, BS, BS, QT, QT>>,            \* d="\\\""
      <<"e", "=", QT, BS, "t", BS, BS, "n", QT>>,      \* e="\t\\n"
      <<"f", "=", QT, "z">>,                           \* f="z   (never closed)
      <<BS, "n">>,                                     \* \n outside any quote
      <<" ">>,
      <<NL>> }

\* The caller renders one more piece of the line
EscAddFragment ==
    /\ escPc = "build"
    /\ escN < MaxFrags
    /\ \E f \in EscFragments : escIn' = escIn \o f
    /\ escN' = escN + 1
    /\ UNCHANGED <<escBuf, escCursor, escPc, escIters, escOthers>>

\* unescapeMultilineAttrs(b) is entered: the fast path (687-689), else
\* cursor := 0 (690)
EscEnter ==
    /\ escPc = "build"
    /\ escBuf' = escIn
    /\ escCursor' = 0
    /\ escPc' = IF ~hasEscapedNewline(escIn) THEN "done" ELSE "loop"
    /\ UNCHANGED <<escIn, escIters, escN, escOthers>>

\* The loop test and one iteration of the body (691-710); leaving the loop
\* returns b (711)
EscLoop ==
    /\ escPc = "loop"
    /\ IF ~(escCursor < Len(escBuf))
       THEN /\ escPc' = "done"
            /\ UNCHANGED <<escBuf, escCursor, escIters>>
       ELSE LET r == unescapeIterate(escBuf, escCursor) IN
            /\ escBuf' = r.b
            /\ escCursor' = r.cursor
            /\ escPc' = r.pc
            /\ escIters' = escIters + 1
    /\ UNCHANGED <<escIn, escN, escOthers>>

EscNext == EscAddFragment \/ EscEnter \/ EscLoop

SpecEsc == Init /\ [][EscNext]_vars

-----------------------------------------------------------------------------
(* What the EscapeProcessor is to compute, stated over the input line with  *)
(* 1-based positions and without the scan's state: a byte is escaped when   *)
(* the run of backslashes just before it has odd length.                    *)

\* The number of consecutive backslashes just before position i, not going
\* below position lo
RunBefore(s, i, lo) ==
    CHOOSE k \in 0..(i - lo) :
        /\ \A j \in 1..k : s[i - j] = BS
        /\ (k = i - lo \/ s[i - k - 1] # BS)

IsEscaped(s, i, lo) == RunBefore(s, i, lo) % 2 = 1

MinOf(S) == CHOOSE x \in S : \A y \in S : x <= y

\* The closing quote of a value whose first byte is at position start: the
\* first quote that is not escaped; 0 when there is none
RefClose(s, start) ==
    LET qs == {i \in start..Len(s) : s[i] = QT /\ ~IsEscaped(s, i, start)}
    IN IF qs = {} THEN 0 ELSE MinOf(qs)

\* The decoded content: the unescaped backslashes are dropped, an escaped n
\* is a newline, an escaped t a tab, any other byte is itself
RefDecode(seg) ==
    LET idx == [p \in 1..Len(seg) |-> p]
        IsMarker(p) == seg[p] = BS /\ ~IsEscaped(seg, p, 1)
        kept == SelectSeq(idx, LAMBDA p : ~IsMarker(p))
        Conv(p) == IF ~IsEscaped(seg, p, 1) THEN seg[p]
                   ELSE IF seg[p] = "n" THEN NL
                   ELSE IF seg[p] = "t" THEN TAB
                   ELSE seg[p]
    IN [k \in 1..Len(kept) |-> Conv(kept[k])]

\* The content holds a newline escape: an n that is escaped
HasNewlineEscape(seg) == \E p \in 1..Len(seg) : seg[p] = "n" /\ IsEscaped(seg, p, 1)

\* The two bytes backslash, n occur somewhere
HasMarkerBytes(s) == \E p \in 1..(Len(s) - 1) : s[p] = BS /\ s[p + 1] = "n"

\* The positions of the = of every ="
EqQuotes(s) == {i \in 1..(Len(s) - 1) : s[i] = "=" /\ s[i + 1] = QT}

\* The lines the claim admits as the result for line s.  Segments are taken
\* left to right; a segment with a newline escape must be replaced by its
\* decoded content without the quotes, a segment without the bytes
\* backslash, n must stay as it is, and the claim leaves open a segment that
\* holds those two bytes but no newline escape (an escaped backslash before
\* an n).  After an opening quote that is never closed the rest is kept.
RECURSIVE RefOutputs(_)
RefOutputs(s) ==
    IF EqQuotes(s) = {} THEN {s}
    ELSE
      LET e == MinOf(EqQuotes(s))
          c == RefClose(s, e + 2)
      IN
      IF c = 0 THEN {s}
      ELSE
        LET seg == SubSeq(s, e + 2, c - 1)
            head == SubSeq(s, 1, e)
            keep == head \o <<QT>> \o seg \o <<QT>>
            rewr == head \o RefDecode(seg)
            opts == IF HasNewlineEscape(seg) THEN {rewr}
                    ELSE IF HasMarkerBytes(seg) THEN {keep, rewr}
                    ELSE {keep}
        IN {h \o r : h \in opts, r \in RefOutputs(SubSeq(s, c + 1, Len(s)))}

\* C8: a line that holds the two bytes backslash, n nowhere is returned
\* byte-identical, whatever quoted segments and other escapes it holds.
C8_CleanLineUnchanged ==
    (escPc = "done" /\ ~HasMarkerBytes(escIn)) => escBuf = escIn

\* C8 witness: a clean line with a quoted value that holds an escaped
\* backslash and an escaped quote has been processed.
C8_Witness ==
    /\ escPc = "done"
    /\ ~HasMarkerBytes(escIn)
    /\ \E i \in 1..(Len(escIn) - 3) :
          SubSeq(escIn, i, i + 3) = <<"=", QT, BS, BS>>
    /\ \E i \in 1..(Len(escIn) - 1) : SubSeq(escIn, i, i + 1) = <<BS, QT>>

\* C9: every key="..." segment with a newline escape is replaced by key=
\* and the decoded content without quotes, the closing quote being the first
\* unescaped quote, all segments of the line left to right and each on its
\* own.
C9_SegmentsRewritten ==
    escPc = "done" => escBuf \in RefOutputs(escIn)

\* C9 witness: a="x\ny"c="\"\n" has become a=x<NL>yc="<NL>.
C9_Witness ==
    /\ escPc = "done"
    /\ escIn = <<"a", "=", QT, "x", BS, "n", "y", QT,
                 "c", "=", QT, BS, QT, BS, "n", QT>>
    /\ escBuf = <<"a", "=", "x", NL, "y", "c", "=", QT, NL>>

\* The bytes of o outside the matched quoted segments of s are those of s,
\* in order: o is s with each closed segment that holds the bytes
\* backslash, n replaced by some bytes, the other segments kept with their
\* quotes, and everything from a quote that is never closed kept.
RECURSIVE OutsideKept(_, _)
OutsideKept(s, o) ==
    IF EqQuotes(s) = {} THEN o = s
    ELSE
      LET e == MinOf(EqQuotes(s))
          c == RefClose(s, e + 2)
      IN
      IF c = 0 THEN o = s
      ELSE
        /\ Len(o) >= e
        /\ SubSeq(o, 1, e) = SubSeq(s, 1, e)
        /\ IF HasMarkerBytes(SubSeq(s, e + 2, c - 1))
           THEN \E k \in 0..(Len(o) - e) :
                   OutsideKept(SubSeq(s, c + 1, Len(s)), SubSeq(o, e + k + 1, Len(o)))
           ELSE /\ Len(o) >= c
                /\ SubSeq(o, e + 1, c) = SubSeq(s, e + 1, c)
                /\ OutsideKept(SubSeq(s, c + 1, Len(s)), SubSeq(o, c + 1, Len(o)))

\* C10: the processor changes only the bytes of matched quoted segments,
\* and on an opening =" that is never closed it does not panic, gives up
\* that occurrence and returns the rest of the line as it was.
C10_OutsideUntouchedNoPanic ==
    /\ escPc # "panic"
    /\ escPc = "done" => OutsideKept(escIn, escBuf)

\* C10 witness: a="x\ny"f="z has become a=x<NL>yf="z, the rewritten segment
\* followed by the unclosed one as it was.
C10_Witness ==
    /\ escPc = "done"
    /\ escIn = <<"a", "=", QT, "x", BS, "n", "y", QT, "f", "=", QT, "z">>
    /\ escBuf = <<"a", "=", "x", NL, "y", "f", "=", QT, "z">>

\* A step of the call while it is in the loop (691-711): the loop test that
\* leaves it, or one more iteration
EscRuns ==
    /\ escPc = "loop"
    /\ escPc' \in {"loop", "done", "panic"}
    /\ escIters' \in {escIters, escIters + 1}

\* The EscapeProcessor with the goroutine that called it running on: a call
\* that is in the loop takes its next step
SpecEscLive == SpecEsc /\ WF_<<escPc, escIters>>(EscRuns)

\* An iteration after which the loop goes on has moved the cursor forward
\* and has not made the buffer longer; a buffer that changed is shorter
EscProgress ==
    escPc = "loop" =>
        /\ escPc' = "loop" => escCursor' > escCursor
        /\ Len(escBuf') <= Len(escBuf)
        /\ escBuf' # escBuf => Len(escBuf') < Len(escBuf)

\* The cursor stays within the buffer; while the loop goes on every
\* iteration so far took an occurrence of =" of the input of its own, and
\* after it at most one more iteration ran, the one that left the loop; the
\* result is not longer than the input and shorter when it differs
EscBounded ==
    /\ escPc \in {"loop", "done"} => escCursor \in 0..Len(escBuf)
    /\ escPc = "loop" => escIters <= Cardinality(EqQuotes(escIn))
    /\ escIters <= Cardinality(EqQuotes(escIn)) + 1
    /\ escPc \in {"loop", "done"} =>
          /\ Len(escBuf) <= Len(escIn)
          /\ escBuf # escIn => Len(escBuf) < Len(escIn)

\* C30: unescapeMultilineAttrs terminates on every input: every iteration
\* of the loop moves the cursor strictly forward, the loop takes each
\* occurrence of =" of the input at most once, the result is never longer
\* than the input and strictly shorter when a segment was rewritten, and a
\* call that was entered returns
C30_Terminates ==
    /\ [][EscProgress]_vars
    /\ []EscBounded
    /\ (escPc = "loop" ~> escPc = "done")

\* C30 witness: a="x\ny"b="ok"a="x\ny" was processed in three iterations,
\* two of them rewriting a segment
C30_Witness ==
    /\ escPc = "done"
    /\ escIn = <<"a", "=", QT, "x", BS, "n", "y", QT, "b", "=", QT, "o", "k", QT,
                 "a", "=", QT, "x", BS, "n", "y", QT>>
    /\ escIters = 3
    /\ escCursor = Len(escBuf)
    /\ Len(escBuf) = Len(escIn) - 6

\* Every closed quoted value of line s, taken left to right, decodes to
\* content without a newline
RECURSIVE NoValueHoldsNewline(_)
NoValueHoldsNewline(s) ==
    IF EqQuotes(s) = {} THEN TRUE
    ELSE
      LET e == MinOf(EqQuotes(s))
          c == RefClose(s, e + 2)
      IN
      IF c = 0 THEN TRUE
      ELSE /\ LET d == RefDecode(SubSeq(s, e + 2, c - 1))
              IN \A k \in 1..Len(d) : d[k] # NL
           /\ NoValueHoldsNewline(SubSeq(s, c + 1, Len(s)))

\* C28: a quoted value whose decoded content holds no newline is returned
\* byte-identical, quotes and escapes kept, also when it holds an escaped
\* backslash followed by the letter n: a line all of whose quoted values
\* are such comes back as it was
C28_NoNewlineValueKept ==
    (escPc = "done" /\ NoValueHoldsNewline(escIn)) => escBuf = escIn

-----------------------------------------------------------------------------
(* The LevelMapper scenario: Setup with a level name in any letter case,    *)
(* then the sink obtained by Logr() is asked Enabled(v) or given Info(v).   *)

MaxVerbosity == 2

\* Every spelling of name n in upper and lower case letters
CaseVariants(n) ==
    {[i \in 1..Len(n) |->
         IF i \in S
         THEN UpperAlpha[CHOOSE k \in 1..26 : LowerAlpha[k] = n[i]]
         ELSE n[i]] : S \in SUBSET (1..Len(n))}

KnownNames ==
    {strDebug, strInfo, strWarn, strWarning, strError, strDpanic, strPanic, strFatal}

\* Names the switch does not know
OtherNames ==
    { <<"n", "o", "t", "-", "a", "-", "l", "e", "v", "e", "l">>,
      <<"t", "r", "a", "c", "e">>,
      <<"w", "a", "r", "n", "s">>,
      <<"e", "r", "r">>,
      <<" ", "i", "n", "f", "o">>,
      <<"D">>,
      <<"0">> }

LevelInputs ==
    UNION {CaseVariants(n) : n \in KnownNames} \cup OtherNames \cup {<<>>}

\* Setup(Options{Level: name, JSON: json, ColorizeLine: color,
\* UnescapeMultiline: unesc})
LvlSetup ==
    /\ lvlPc = "start"
    /\ \E name \in LevelInputs, json \in BOOLEAN, color \in BOOLEAN, unesc \in BOOLEAN :
          /\ Setup([Level |-> name, JSON |-> json, AddCaller |-> FALSE,
                    ColorizeLine |-> color, UnescapeMultiline |-> unesc])
          /\ lvlIn' = name
    /\ lvlPc' = "configured"
    /\ UNCHANGED <<lvlV, lvlRes, arrays, stdout, once, lvlOthers>>

\* Logr() and then Enabled(v) on its sink, whose logger is base
LvlSinkEnabled ==
    /\ lvlPc = "configured"
    /\ \E v \in 0..MaxVerbosity :
          /\ lvlV' = v
          /\ lvlRes' = slogSinkEnabled(handlers[base], v)
    /\ lvlPc' = "enabled"
    /\ UNCHANGED <<lvlIn, pkgVars, lvlOthers>>

\* The level slogSink.Info gives the event for verbosity v (798-802)
LvlSinkInfoLevel ==
    /\ lvlPc = "configured"
    /\ \E v \in 0..MaxVerbosity :
          /\ lvlV' = v
          /\ lvlRes' = sinkLevel(v)
    /\ lvlPc' = "info"
    /\ UNCHANGED <<lvlIn, pkgVars, lvlOthers>>

LvlNext == LvlSetup \/ LvlSinkEnabled \/ LvlSinkInfoLevel

SpecLevel == Init /\ [][LvlNext]_vars

\* Two letters that differ at most in case
SameLetter(c, d) ==
    c = d \/ \E k \in 1..26 : {c, d} = {LowerAlpha[k], UpperAlpha[k]}

\* Two strings that differ at most in the case of their letters
EqFold(x, y) == Len(x) = Len(y) /\ \A i \in 1..Len(x) : SameLetter(x[i], y[i])

\* The severity the claim gives a level name
ClaimedLevel(name) ==
    IF EqFold(name, strDebug) THEN LevelDebug
    ELSE IF name = <<>> \/ EqFold(name, strInfo) THEN LevelInfo
    ELSE IF EqFold(name, strWarn) \/ EqFold(name, strWarning) THEN LevelWarn
    ELSE IF \E n \in {strError, strDpanic, strPanic, strFatal} : EqFold(name, n)
    THEN LevelError
    ELSE LevelInfo

C7_LevelMapping ==
    /\ lvlPc # "start" =>
          /\ handlers[base].level \in Levels
          /\ handlers[base].level = ClaimedLevel(lvlIn)
    /\ lvlPc = "info" => lvlRes = (IF lvlV = 0 THEN LevelInfo ELSE LevelDebug)
    /\ LevelDebug < LevelInfo /\ LevelInfo < LevelWarn /\ LevelWarn < LevelError

\* C7 witness: Setup with level "WARNING" has set the threshold warn.
C7_Witness ==
    /\ lvlPc = "configured"
    /\ lvlIn = <<"W", "A", "R", "N", "I", "N", "G">>
    /\ handlers[base].level = LevelWarn

-----------------------------------------------------------------------------
(* The writers scenario: after Setup with ColorizeLine, NumWriters          *)
(* goroutines each emit one event per word of WrWords, through the logger   *)
(* Setup made or through one derived from it.  The stream takes the bytes   *)
(* of a Write one at a time.                                                *)

Digit(n) == <<"0", "1", "2", "3", "4", "5", "6", "7", "8", "9">>[n + 1]

WrOptions ==
    [Level |-> strDebug, JSON |-> FALSE, AddCaller |-> FALSE,
     ColorizeLine |-> TRUE, UnescapeMultiline |-> FALSE]

\* The level goroutine g logs at, and its k-th event
WrLevel(g) == IF g % 2 = 1 THEN LevelInfo ELSE LevelError
WrRecord(g, k) == [level |-> WrLevel(g), msg |-> <<Digit(g), WrWords[k]>>, attrs |-> <<>>]

\* Setup(Options{Level: "debug", ColorizeLine: true}) before the goroutines
\* start
WrSetup ==
    /\ base = 0
    /\ Setup(WrOptions)
    /\ UNCHANGED <<arrays, stdout, once, wrVars, wrOthers>>

\* Goroutine g takes its logger: Logger(), With("g", g) or a WithGroup("q")
\* of it
WrObtain(g) ==
    /\ base # 0
    /\ wrPc[g] = "start"
    /\ LET r == CASE g % 3 = 1 -> [handlers |-> handlers, arrays |-> arrays, id |-> base]
                  [] g % 3 = 2 -> handlerWithAttrs(handlers, arrays, base,
                                                   <<[k |-> <<"g">>, v |-> VStr(<<Digit(g)>>)]>>)
                  [] g % 3 = 0 -> handlerWithGroup(handlers, arrays, base, <<"q">>)
       IN /\ handlers' = r.handlers
          /\ arrays' = r.arrays
          /\ wrH' = [wrH EXCEPT ![g] = r.id]
    /\ wrPc' = [wrPc EXCEPT ![g] = "ready"]
    /\ UNCHANGED <<base, addCaller, doUnescape, mu, stdout, once,
                   wrBuf, wrPos, wrSent, wrOthers>>

\* colorTextHandler.Handle up to the call of Write (614-638)
WrHandle(g) ==
    /\ wrPc[g] = "ready"
    /\ wrBuf' = [wrBuf EXCEPT ![g] =
                    handleBytes(arrays, handlers[wrH[g]],
                                WrRecord(g, wrSent[g] + 1), doUnescape)]
    /\ wrPos' = [wrPos EXCEPT ![g] = 0]
    /\ wrPc' = [wrPc EXCEPT ![g] = "lock"]
    /\ UNCHANGED <<pkgVars, wrH, wrSent, wrOthers>>

\* syncWriter.Write entered without s.mu.Lock()
WrLockNoMutex(g) ==
    /\ wrPc[g] = "lock"
    /\ mu' = [mu EXCEPT ![handlers[wrH[g]].w] = g]
    /\ wrPc' = [wrPc EXCEPT ![g] = "write"]
    /\ UNCHANGED <<base, addCaller, doUnescape, handlers, arrays, stdout, once,
                   wrH, wrBuf, wrPos, wrSent, wrOthers>>

\* syncWriter.Write: s.mu.Lock() (585)
WrLock(g) ==
    /\ wrPc[g] = "lock"
    /\ mu[handlers[wrH[g]].w] = 0
    /\ mu' = [mu EXCEPT ![handlers[wrH[g]].w] = g]
    /\ wrPc' = [wrPc EXCEPT ![g] = "write"]
    /\ UNCHANGED <<base, addCaller, doUnescape, handlers, arrays, stdout, once,
                   wrH, wrBuf, wrPos, wrSent, wrOthers>>

\* s.w.Write(p) (587): the stream takes the next byte of p
WrWrite(g) ==
    /\ wrPc[g] = "write"
    /\ wrPos[g] < Len(wrBuf[g])
    /\ stdout' = Append(stdout, wrBuf[g][wrPos[g] + 1])
    /\ wrPos' = [wrPos EXCEPT ![g] = @ + 1]
    /\ UNCHANGED <<base, addCaller, doUnescape, handlers, arrays, mu, once,
                   wrPc, wrH, wrBuf, wrSent, wrOthers>>

\* Write returning while the stream has not taken all of p: the rest stays
\* in a buffer
WrUnlockBuffered(g) ==
    /\ wrPc[g] = "write"
    /\ mu' = [mu EXCEPT ![handlers[wrH[g]].w] = 0]
    /\ wrSent' = [wrSent EXCEPT ![g] = @ + 1]
    /\ wrPc' = [wrPc EXCEPT ![g] = IF wrSent[g] + 1 = Len(WrWords) THEN "done" ELSE "ready"]
    /\ UNCHANGED <<base, addCaller, doUnescape, handlers, arrays, stdout, once,
                   wrH, wrBuf, wrPos, wrOthers>>

\* The deferred s.mu.Unlock() (586) once the stream has taken all of p;
\* Handle returns
WrUnlock(g) ==
    /\ wrPc[g] = "write"
    /\ wrPos[g] = Len(wrBuf[g])
    /\ mu' = [mu EXCEPT ![handlers[wrH[g]].w] = 0]
    /\ wrSent' = [wrSent EXCEPT ![g] = @ + 1]
    /\ wrPc' = [wrPc EXCEPT ![g] = IF wrSent[g] + 1 = Len(WrWords) THEN "done" ELSE "ready"]
    /\ UNCHANGED <<base, addCaller, doUnescape, handlers, arrays, stdout, once,
                   wrH, wrBuf, wrPos, wrOthers>>

WrNext ==
    \/ WrSetup
    \/ \E g \in Writers : WrObtain(g)
    \/ \E g \in Writers : WrHandle(g)
    \/ \E g \in Writers : WrLock(g)
    \/ \E g \in Writers : WrWrite(g)
    \/ \E g \in Writers : WrUnlock(g)

SpecWrite == Init /\ [][WrNext]_vars

\* The pieces of the stream between newlines; the last one is what follows
\* the last newline
StreamLines == bytesSplitNL(stdout)

ColorStarts == {ansiRed, ansiGreen, ansiYellow, ansiBlue}

\* A whole event line: colour start, text free of escape bytes, reset
CompleteEvent(l) ==
    /\ Len(l) >= 9
    /\ SubSeq(l, 1, 5) \in ColorStarts
    /\ SubSeq(l, Len(l) - 3, Len(l)) = ansiReset
    /\ \A i \in 6..(Len(l) - 4) : l[i] # ESC

\* The whole lines among ls that carry the k-th event of goroutine g
LinesOf(ls, g, k) ==
    {i \in 1..(Len(ls) - 1) :
        bytesContains(ls[i], <<"m", "s", "g", "=", Digit(g), WrWords[k]>>)}

\* C1: N goroutines emitting M events each through one colorized logger or
\* loggers derived from it put exactly N*M complete events on the stream:
\* every event's bytes (colour start, text, reset, newline) arrive in one
\* critical section of the writer mutex, so the bytes of two events never
\* interleave.
C1_WholeEvents ==
    LET ls == StreamLines
        n == Len(ls) - 1
        rest == ls[Len(ls)]
    IN /\ \A i \in 1..n : CompleteEvent(ls[i])
       /\ Cardinality({g \in Writers : wrPc[g] = "write"}) <= 1
       /\ rest # <<>> =>
             \E g \in Writers : /\ wrPc[g] = "write"
                                /\ rest = SubSeq(wrBuf[g], 1, wrPos[g])
       /\ \A g \in Writers : \A k \in 1..Len(WrWords) : Cardinality(LinesOf(ls, g, k)) <= 1
       /\ (\A g \in Writers : wrPc[g] = "done") =>
             /\ n = NumWriters * Len(WrWords)
             /\ rest = <<>>
             /\ \A g \in Writers : \A k \in 1..Len(WrWords) :
                   Cardinality(LinesOf(ls, g, k)) = 1

\* C1 witness: all goroutines are done, the stream holds N*M events, and
\* the events of goroutines 1 and 2 alternate on it (2, 1, 2, ...), one of
\* them written through a derived logger.
C1_Witness ==
    LET ls == StreamLines IN
    /\ \A g \in Writers : wrPc[g] = "done"
    /\ Len(ls) - 1 = NumWriters * Len(WrWords)
    /\ 1 \in LinesOf(ls, 2, 1)
    /\ 2 \in LinesOf(ls, 1, 1)
    /\ 3 \in LinesOf(ls, 2, 2)
    /\ wrH[2] # wrH[1]
    /\ bytesContains(ls[1], <<" ", "g", "=", "2">>)

-----------------------------------------------------------------------------
(* The first-use scenario: with no Setup before, NumCallers goroutines call *)
(* an entry point that starts with ensure().  The read of base at line 106  *)
(* is not synchronised with the write of line 100 in another goroutine: it  *)
(* gives nil or the logger written, until the goroutine has seen the logger *)
(* or has synchronised through once.                                        *)

EnEntries == {"Logger", "Logr", "With", "logMsg"}

\* The Options of lines 113-119
DefaultOptions ==
    [Level |-> strInfo, JSON |-> TRUE, AddCaller |-> FALSE,
     ColorizeLine |-> FALSE, UnescapeMultiline |-> FALSE]

\* What a read of base by goroutine g can give
baseReads(g) == IF enView[g] THEN {base} ELSE {0, base}

\* The entry point is called; ensure(): if base != nil { return } (106-108)
EnCheck(g) ==
    /\ enPc[g] = "start"
    /\ \E via \in EnEntries : enVia' = [enVia EXCEPT ![g] = via]
    /\ \E seen \in baseReads(g) :
          /\ enPc' = [enPc EXCEPT ![g] = IF seen # 0 THEN "ret" ELSE "once"]
          /\ enView' = [enView EXCEPT ![g] = @ \/ seen # 0]
    /\ UNCHANGED <<pkgVars, enSeen, enOthers>>

\* once.Do that lets every caller run the function
EnOnceDoEvery(g) ==
    /\ enPc[g] = "once"
    /\ once' = "running"
    /\ enPc' = [enPc EXCEPT ![g] = "inner"]
    /\ UNCHANGED <<base, addCaller, doUnescape, handlers, arrays, mu, stdout,
                   enVia, enView, enSeen, enOthers>>

\* once.Do (109): the first caller runs the function; a caller arriving
\* while it runs waits; one arriving after it has returned goes on, the
\* function's writes visible to it
EnOnceDo(g) ==
    /\ enPc[g] = "once"
    /\ once # "running"
    /\ IF once = "new"
       THEN /\ once' = "running"
            /\ enPc' = [enPc EXCEPT ![g] = "inner"]
            /\ UNCHANGED enView
       ELSE /\ once' = once
            /\ enPc' = [enPc EXCEPT ![g] = "ret"]
            /\ enView' = [enView EXCEPT ![g] = TRUE]
    /\ UNCHANGED <<base, addCaller, doUnescape, handlers, arrays, mu, stdout,
                   enVia, enSeen, enOthers>>

\* Inside the function: if base != nil { return } (110-112)
EnInner(g) ==
    /\ enPc[g] = "inner"
    /\ \E seen \in baseReads(g) :
          /\ enPc' = [enPc EXCEPT ![g] = IF seen # 0 THEN "exit" ELSE "flags"]
          /\ enView' = [enView EXCEPT ![g] = @ \/ seen # 0]
    /\ UNCHANGED <<pkgVars, enVia, enSeen, enOthers>>

\* Setup(defaults), first half: the two flags (74-75)
EnSetupFlags(g) ==
    /\ enPc[g] = "flags"
    /\ addCaller' = DefaultOptions.AddCaller
    /\ doUnescape' = DefaultOptions.UnescapeMultiline
    /\ enPc' = [enPc EXCEPT ![g] = "handler"]
    /\ UNCHANGED <<base, handlers, arrays, mu, stdout, once, enVia, enView, enSeen, enOthers>>

\* Setup(defaults), second half: the handler and base = slog.New(h) (76-100)
EnSetupBase(g) ==
    /\ enPc[g] = "handler"
    /\ handlers' = Append(handlers, setupHandler(DefaultOptions, Len(mu) + 1, doUnescape))
    /\ mu' = Append(mu, 0)
    /\ base' = Len(handlers) + 1
    /\ enView' = [enView EXCEPT ![g] = TRUE]
    /\ enPc' = [enPc EXCEPT ![g] = "exit"]
    /\ UNCHANGED <<addCaller, doUnescape, arrays, stdout, once, enVia, enSeen, enOthers>>

\* The function returns and once.Do with it (120)
EnOnceExit(g) ==
    /\ enPc[g] = "exit"
    /\ once' = "done"
    /\ enPc' = [enPc EXCEPT ![g] = "ret"]
    /\ UNCHANGED <<base, addCaller, doUnescape, handlers, arrays, mu, stdout,
                   enVia, enView, enSeen, enOthers>>

\* ensure() has returned; the entry point reads base (129, 136, 180, 238)
EnRead(g) ==
    /\ enPc[g] = "ret"
    /\ \E seen \in baseReads(g) : enSeen' = [enSeen EXCEPT ![g] = seen]
    /\ enPc' = [enPc EXCEPT ![g] = "done"]
    /\ UNCHANGED <<pkgVars, enVia, enView, enOthers>>

EnNext ==
    \/ \E g \in Callers : EnCheck(g)
    \/ \E g \in Callers : EnOnceDo(g)
    \/ \E g \in Callers : EnInner(g)
    \/ \E g \in Callers : EnSetupFlags(g)
    \/ \E g \in Callers : EnSetupBase(g)
    \/ \E g \in Callers : EnOnceExit(g)
    \/ \E g \in Callers : EnRead(g)

SpecInit == Init /\ [][EnNext]_vars

\* C2: when several goroutines make their first use concurrently with no
\* Setup before, the default initialisation runs exactly once, and every
\* goroutine, after its ensure() returns, observes the same non-nil logger.
C2_InitOnce ==
    /\ Len(handlers) <= 1
    /\ \A g \in Callers :
          enPc[g] = "done" =>
             /\ Len(handlers) = 1
             /\ enSeen[g] # 0
             /\ handlers[enSeen[g]].kind = "json"
             /\ \A g2 \in Callers : enPc[g2] = "done" => enSeen[g2] = enSeen[g]

\* C2 witness: two goroutines that came in through different entry points
\* have both returned from ensure() and read the one logger made.
C2_Witness ==
    /\ enPc[1] = "done" /\ enPc[2] = "done"
    /\ enVia[1] = "Logger" /\ enVia[2] = "logMsg"
    /\ once = "done"
    /\ enSeen[1] = 1 /\ enSeen[2] = 1
    /\ Len(handlers) = 1

-----------------------------------------------------------------------------
(* The re-Setup scenario: one goroutine calls Setup up to MaxSetups times,  *)
(* takes handles with Logger() or Logr() in between, and then emits one     *)
(* event through a handle it holds.                                         *)

MaxSetups == 2
MaxHandles == 1

StOptions ==
    [Level : {strInfo, strError}, JSON : BOOLEAN, AddCaller : {FALSE},
     ColorizeLine : BOOLEAN, UnescapeMultiline : BOOLEAN]

StRecords ==
    [level : {LevelInfo, LevelError}, msg : {<<"m">>, <<"a", NL, "b">>}, attrs : {<<>>}]

\* Setup(opts)
StSetup ==
    /\ stPc = "run"
    /\ Len(stOpts) < MaxSetups
    /\ \E opts \in StOptions :
          /\ Setup(opts)
          /\ stOpts' = Append(stOpts, opts)
    /\ UNCHANGED <<arrays, stdout, once, stPc, stHandles, stUsed, stRec, stOut, stOthers>>

\* Logger() or Logr() (127-137): ensure() returns at once, base being set;
\* the handle holds base.  born is the number of Setup calls made so far.
StObtain ==
    /\ stPc = "run"
    /\ base # 0
    /\ Len(stHandles) < MaxHandles
    /\ stHandles' = Append(stHandles, [h |-> base, born |-> Len(stOpts)])
    /\ UNCHANGED <<pkgVars, stPc, stOpts, stUsed, stRec, stOut, stOthers>>

\* An event through a handle held: the handler's Handle, which for the
\* colour handler reads the package flag doUnescape (633)
StEmit ==
    /\ stPc = "run"
    /\ \E i \in 1..Len(stHandles), rec \in StRecords :
          \E out \in {handleBytes(arrays, handlers[stHandles[i].h], rec, doUnescape)} :
          /\ stUsed' = i
          /\ stRec' = rec
          /\ stOut' = out
          /\ stdout' = stdout \o out
    /\ stPc' = "emitted"
    /\ UNCHANGED <<base, addCaller, doUnescape, handlers, arrays, mu, once,
                   stOpts, stHandles, stOthers>>

StNext == StSetup \/ StObtain \/ StEmit

SpecSetup == Init /\ [][StNext]_vars

\* What an event gives under Options opts: nothing below the threshold, a
\* JSON line with JSON, else the text line, unescaped with
\* UnescapeMultiline, coloured with ColorizeLine
ClaimedBytes(opts, rec) ==
    IF rec.level < ClaimedLevel(opts.Level) THEN <<>>
    ELSE IF opts.JSON THEN jsonLine(rec.level, rec.msg, <<>>, rec.attrs)
    ELSE LET t == textLine(rec.level, rec.msg, <<>>, rec.attrs)
             u == IF opts.UnescapeMultiline THEN unescapeMultilineAttrs(t) ELSE t
         IN IF opts.ColorizeLine
            THEN applyMultilineColor(u, levelColorSlog(rec.level))
            ELSE u

\* C3: after Setup is called again with other options, a handle obtained
\* before keeps behaving by the options in force when it was obtained (same
\* threshold, encoder, colorization, unescape behaviour), and a lookup made
\* after the call gets the new instance.
C3_HandlesKeepOptions ==
    /\ \A i \in 1..Len(stHandles) : stHandles[i].h = stHandles[i].born
    /\ stPc = "emitted" =>
          stOut = ClaimedBytes(stOpts[stHandles[stUsed].born], stRec)

\* C18: an event through a logger that Setup made with JSON on holds no ANSI
\* escape byte and is the JSON line as the encoder wrote it (one line, the
\* newline of the message still escaped), whatever ColorizeLine and
\* UnescapeMultiline were in that Setup or are in a later one
C18_JsonNeverColoured ==
    (stPc = "emitted" /\ stOpts[stHandles[stUsed].born].JSON) =>
        LET opts == stOpts[stHandles[stUsed].born] IN
        /\ \A i \in 1..Len(stOut) : stOut[i] # ESC
        /\ \A i \in 1..(Len(stOut) - 1) : stOut[i] # NL
        /\ stOut = ClaimedBytes([opts EXCEPT !.ColorizeLine = FALSE,
                                             !.UnescapeMultiline = FALSE], stRec)
        /\ stRec.level >= ClaimedLevel(opts.Level) =>
              /\ stOut # <<>>
              /\ stOut[1] = "{"
              /\ bytesContains(stOut, <<BS, "n">>) <=> (\E i \in 1..Len(stRec.msg) : stRec.msg[i] = NL)

\* An event of two lines went through a logger made with JSON, ColorizeLine
\* and UnescapeMultiline all on, and was written
C18_Witness ==
    /\ stPc = "emitted"
    /\ LET opts == stOpts[stHandles[stUsed].born] IN
          opts.JSON /\ opts.ColorizeLine /\ opts.UnescapeMultiline
    /\ stRec.msg = <<"a", NL, "b">>
    /\ bytesContains(stOut, <<QT, "m", "s", "g", QT, ":", QT, "a", BS, "n", "b", QT>>)

-----------------------------------------------------------------------------
(* The derivation scenario: after Setup with one of the package's two       *)
(* handlers, the goroutines of Derivers call With and WithGroup on any      *)
(* logger made so far, at most MaxDerive calls in all.                      *)

MaxDerive == 3

DvArgs ==
    [With |-> { <<[k |-> <<"a">>, v |-> VStr(<<"1">>)]>>,
                <<[k |-> <<"b">>, v |-> VStr(<<"2">>)]>>,
                <<[k |-> <<"c">>, v |-> VStr(<<"3">>)],
                  [k |-> <<"d">>, v |-> VStr(<<"4">>)]>> },
     WithGroup |-> { <<"g">>, <<"h">> }]

\* Setup(Options{ColorizeLine: color, UnescapeMultiline: true})
DvSetup ==
    /\ base = 0
    /\ \E color \in BOOLEAN :
          Setup([Level |-> strInfo, JSON |-> FALSE, AddCaller |-> FALSE,
                 ColorizeLine |-> color, UnescapeMultiline |-> TRUE])
    /\ UNCHANGED <<arrays, stdout, once, dvVars, dvOthers>>

\* A goroutine calls With(k, v, ...) or WithGroup(name) on a logger
\* (210-215): the call has its receiver and converted arguments
DvCall(g) ==
    /\ base # 0
    /\ dvPc[g] = "idle"
    /\ Cardinality(dvCalls) + Cardinality({d \in Derivers : dvPc[d] = "called"}) < MaxDerive
    /\ \E parent \in 1..Len(handlers), op \in {"With", "WithGroup"} :
          \E arg \in DvArgs[op] :
             dvCall' = [dvCall EXCEPT ![g] = [parent |-> parent, op |-> op, arg |-> arg]]
    /\ dvPc' = [dvPc EXCEPT ![g] = "called"]
    /\ UNCHANGED <<pkgVars, dvCalls, dvOthers>>

\* The handler's WithAttrs or WithGroup runs and the new logger is returned
DvReturn(g) ==
    /\ dvPc[g] = "called"
    /\ LET c == dvCall[g]
           r == IF c.op = "With"
                THEN handlerWithAttrs(handlers, arrays, c.parent, c.arg)
                ELSE handlerWithGroup(handlers, arrays, c.parent, c.arg)
       IN /\ handlers' = r.handlers
          /\ arrays' = r.arrays
          /\ dvCalls' = dvCalls \cup {[parent |-> c.parent, op |-> c.op, arg |-> c.arg,
                                       child |-> r.id]}
    /\ dvCall' = [dvCall EXCEPT ![g] = NoCall]
    /\ dvPc' = [dvPc EXCEPT ![g] = "idle"]
    /\ UNCHANGED <<base, addCaller, doUnescape, mu, stdout, once, dvOthers>>

DvNext ==
    \/ DvSetup
    \/ \E g \in Derivers : DvCall(g)
    \/ \E g \in Derivers : DvReturn(g)

SpecDerive == Init /\ [][DvNext]_vars

\* The attribute list and the group list a handler shows
AttrsOf(i) == sliceElems(arrays, handlers[i].attrs)
GroupsOf(i) == sliceElems(arrays, handlers[i].groups)

\* Every returned call gave a new handler with the parent's lists extended
\* by what the call added, and the logger of Setup has empty lists
DerivedRight ==
    /\ base # 0 => AttrsOf(base) = <<>> /\ GroupsOf(base) = <<>>
    /\ \A c \in dvCalls :
          /\ c.child # c.parent
          /\ c.op = "With" =>
                /\ AttrsOf(c.child) = AttrsOf(c.parent) \o c.arg
                /\ GroupsOf(c.child) = GroupsOf(c.parent)
          /\ c.op = "WithGroup" =>
                /\ AttrsOf(c.child) = AttrsOf(c.parent)
                /\ GroupsOf(c.child) = GroupsOf(c.parent) \o <<c.arg>>

\* No step changes the lists of a handler that exists
ListsKept ==
    \A i \in 1..Len(handlers) :
        /\ AttrsOf(i)' = AttrsOf(i)
        /\ GroupsOf(i)' = GroupsOf(i)

\* C4: With and WithGroup return a new logger whose attribute and group
\* lists are the parent's copied and extended; the lists of an existing
\* logger never change, so siblings L.With(a,1) and L.With(b,2) carry only
\* their own attribute and L stays attribute-free, also when the
\* derivations run concurrently.
C4_ParentsUntouched == [](DerivedRight) /\ [][ListsKept]_vars

\* C4 witness: two goroutines have derived With(a,1) and With(b,2) from the
\* logger of Setup, each child shows its own attribute only, the parent
\* none.
C4_Witness ==
    /\ base # 0
    /\ \E c1, c2 \in dvCalls :
          /\ c1.parent = base /\ c2.parent = base
          /\ c1.child # c2.child
          /\ AttrsOf(c1.child) = <<[k |-> <<"a">>, v |-> VStr(<<"1">>)]>>
          /\ AttrsOf(c2.child) = <<[k |-> <<"b">>, v |-> VStr(<<"2">>)]>>
    /\ AttrsOf(base) = <<>>

-----------------------------------------------------------------------------
(* The enablement scenario: Setup with some threshold, then one call of an  *)
(* entry point at some level.                                               *)

AbKVs == { <<>>, <<VStr(<<"k">>), VStr(<<"v">>)>> }
AbMsg == <<"m">>

\* Setup(Options{Level: name, JSON: json, AddCaller: ac, ColorizeLine: color})
AbSetup ==
    /\ abPc = "start"
    /\ \E name \in {strDebug, strInfo, strWarn, strError},
          json \in BOOLEAN, ac \in BOOLEAN, color \in BOOLEAN :
          Setup([Level |-> name, JSON |-> json, AddCaller |-> ac,
                 ColorizeLine |-> color, UnescapeMultiline |-> FALSE])
    /\ abPc' = "configured"
    /\ UNCHANGED <<arrays, stdout, once, abCall, abTrace, abOthers>>

\* Debug, Info, Warn or Error of the package with a message and maybe a
\* key and a value (140-149)
AbLogArgs ==
    /\ abPc = "configured"
    /\ \E level \in Levels, kvs \in AbKVs :
          \E r \in {logArgs(arrays, handlers[base], level, <<VStr(AbMsg)>> \o kvs, addCaller, doUnescape)} :
          /\ abCall' = [entry |-> "logArgs", level |-> level, kvs |-> kvs]
          /\ abTrace' = r.work
          /\ stdout' = stdout \o r.out
    /\ abPc' = "returned"
    /\ UNCHANGED <<base, addCaller, doUnescape, handlers, arrays, mu, once, abOthers>>

\* Debugf, Infof, Warnf or Errorf of the package (161-164)
AbLogMsgf ==
    /\ abPc = "configured"
    /\ \E level \in Levels :
          \E r \in {logMsgf(arrays, handlers[base], level, AbMsg, addCaller, doUnescape)} :
          /\ abCall' = [entry |-> "logMsgf", level |-> level, kvs |-> <<>>]
          /\ abTrace' = r.work
          /\ stdout' = stdout \o r.out
    /\ abPc' = "returned"
    /\ UNCHANGED <<base, addCaller, doUnescape, handlers, arrays, mu, once, abOthers>>

\* A method of the SugaredLogger that Logger() gave (186-209)
AbSugared ==
    /\ abPc = "configured"
    /\ \E level \in Levels :
          \E r \in {sugaredLog(arrays, handlers[base], level, <<VStr(AbMsg)>>, doUnescape)} :
          /\ abCall' = [entry |-> "sugared", level |-> level, kvs |-> <<>>]
          /\ abTrace' = r.work
          /\ stdout' = stdout \o r.out
    /\ abPc' = "returned"
    /\ UNCHANGED <<base, addCaller, doUnescape, handlers, arrays, mu, once, abOthers>>

\* Info(v, msg, kvs...) of a sink over base, named or not, with values or
\* not (790-804)
AbSinkInfo ==
    /\ abPc = "configured"
    /\ \E v \in 0..1, name \in {<<>>, <<"n">>}, skv \in AbKVs, kvs \in AbKVs :
          \E r \in {slogSinkInfo(handlers, arrays, base, name, skv, v, AbMsg, kvs, doUnescape)} :
          /\ abCall' = [entry |-> "sinkInfo", level |-> sinkLevel(v), kvs |-> kvs]
          /\ abTrace' = r.work
          /\ handlers' = r.handlers
          /\ arrays' = r.arrays
          /\ stdout' = stdout \o r.out
    /\ abPc' = "returned"
    /\ UNCHANGED <<base, addCaller, doUnescape, mu, once, abOthers>>

AbNext == AbSetup \/ AbLogArgs \/ AbLogMsgf \/ AbSugared \/ AbSinkInfo

SpecEnable == Init /\ [][AbNext]_vars

\* C5: on every entry point, when the event's severity is below the
\* threshold the enablement check is the first step taken: no caller
\* resolution, no message or attribute formatting and no write happens for
\* that call.
C5_CheckFirst ==
    (abPc = "returned" /\ abCall.level < handlers[base].level) =>
        /\ Head(abTrace) = "Enabled"
        /\ \A i \in 1..Len(abTrace) :
              abTrace[i] \notin {"findExternalCaller", "Sprint", "convertKVs", "Handle"}
        /\ stdout = <<>>

-----------------------------------------------------------------------------
(* Scenario "format": autoFormatJSON (353-388) applied to one value.  The   *)
(* value is a string put together from at most MaxTokens pieces of JSON     *)
(* text, or one of a few values of the other kinds.                         *)

MaxTokens == 4

FmtTokens ==
    { <<"{">>, <<"}">>, <<"[">>, <<"]">>, <<",">>, <<" ">>, <<"1">>,
      <<QT, "b", QT, ":", "2", ",">>,
      <<QT, "a", QT, ":", "1">>,
      <<QT, "a", QT, ":", "3", ",">>,
      <<QT, "a", QT, ":", "{">> }

DocA1 == JObj(<<[k |-> <<"a">>, v |-> JNum(1)]>>)
DocNested == JObj(<<[k |-> <<"a">>, v |-> JArr(<<JNum(1), JNum(2)>>)],
                    [k |-> <<"b">>, v |-> JObj(<<[k |-> <<"c">>, v |-> JStr(<<"x">>)]>>)]>>)
TextA1 == <<"{", "1", "}">>

\* Values of the kinds that are no string: nil, scalars, prettyValues, maps
\* and slices of the listed shapes, a struct, an error, a map[int]string, a
\* named integer, a []float64 and a func
FmtValues ==
    { VNil, VInt(0), VInt(42), VBool(TRUE), VBool(FALSE),
      VPretty(VStr(<<"{", "}">>)), VPretty(VMap(DocA1)), VPretty(VNil),
      VMap(DocA1), VMap(JObj(<<>>)), VMap(DocNested),
      VSlice(JArr(<<JNum(1), JNum(2)>>)), VSlice(JArr(<<>>)), VSlice(JArr(<<DocA1>>)),
      VStruct(DocA1, TextA1), VStruct(JObj(<<>>), <<"{", "}">>),
      VErr(<<"b", "o", "o", "m">>),
      VNamed(DocA1, <<"m", "a", "p", "[", "a", ":", "1", "]">>),
      VNamed(JNum(5), <<"5">>),
      VNamed(JArr(<<JNum(1)>>), <<"[", "1", "]">>),
      VNamed(JStr(<<"x">>), <<"x">>),
      VOpaque(<<"0", "x", "c", "0">>) }

\* The scenario starts
FmtBegin ==
    /\ fmtPc = "idle"
    /\ fmtPc' = "build"
    /\ UNCHANGED <<fmtStr, fmtN, fmtIn, fmtOut, pkgVars, fmtOthers>>

\* One more piece of text for the string
FmtAddToken ==
    /\ fmtPc = "build"
    /\ fmtN < MaxTokens
    /\ \E t \in FmtTokens : fmtStr' = fmtStr \o t
    /\ fmtN' = fmtN + 1
    /\ UNCHANGED <<fmtIn, fmtOut, fmtPc, pkgVars, fmtOthers>>

\* autoFormatJSON(s) for the string s
FmtString ==
    /\ fmtPc = "build"
    /\ fmtIn' = VStr(fmtStr)
    /\ fmtOut' = autoFormatJSON(VStr(fmtStr))
    /\ fmtPc' = "done"
    /\ UNCHANGED <<fmtStr, fmtN, pkgVars, fmtOthers>>

\* autoFormatJSON(v) for a value v that is no string
FmtValue ==
    /\ fmtPc = "build"
    /\ fmtN = 0
    /\ \E v \in FmtValues :
          /\ fmtIn' = v
          /\ fmtOut' = autoFormatJSON(v)
    /\ fmtPc' = "done"
    /\ UNCHANGED <<fmtStr, fmtN, pkgVars, fmtOthers>>

FmtNext == FmtBegin \/ FmtAddToken \/ FmtString \/ FmtValue

SpecFormat == Init /\ [][FmtNext]_vars

\* The part of s between its first and its last byte that is no white space
FmtCore(s) ==
    LET solid == {i \in 1..Len(s) : s[i] \notin {" ", NL, TAB}} IN
    IF solid = {} THEN <<>>
    ELSE SubSeq(s, CHOOSE i \in solid : \A j \in solid : i <= j,
                   CHOOSE i \in solid : \A j \in solid : i >= j)

\* s, white space around it aside, starts with { and ends with }, or starts
\* with [ and ends with ]
FmtDelimited(s) ==
    LET c == FmtCore(s) IN
    /\ Len(c) >= 1
    /\ <<c[1], c[Len(c)]>> \in {<<"{", "}">>, <<"[", "]">>}

FmtParses(s) == jsonUnmarshal(FmtCore(s)).ok

\* The number of bytes of text before position p that are in set
FmtCount(text, p, set) == Cardinality({i \in 1..(p - 1) : text[i] \in set})

\* Every line of text starts with two spaces for each bracket that is open
\* at that point (text has no bracket inside a string literal)
FmtTwoSpaceIndented(text) ==
    \A p \in 1..Len(text) :
        (p = 1 \/ text[p - 1] = NL) =>
            LET q == CHOOSE i \in p..Len(text) :
                         text[i] # " " /\ \A j \in p..(i - 1) : text[j] = " "
                depth == FmtCount(text, q, {"{", "["}) - FmtCount(text, q, {"}", "]"})
                         - (IF text[q] \in {"}", "]"} THEN 1 ELSE 0)
            IN q - p = 2 * depth

\* v is a map or slice of the listed shapes, or marshals to a JSON object
FmtComposite(v) ==
    \/ v.t \in {"map", "slice"}
    \/ v.t \in {"struct", "named", "error"} /\ jsonMarshalValue(v).j.t = "obj"

\* C19: autoFormatJSON returns its input for a prettyValue, nil, a scalar, a
\* string that is not delimited by { } or [ ] once trimmed, and a delimited
\* string that does not parse (the untrimmed string comes back); it returns
\* a new value only for a delimited string that parses (its two-space
\* re-serialisation) and for a composite or struct-like value (its two-space
\* pretty-printed form)
C19_AutoFormatter ==
    fmtPc = "done" =>
        LET v == fmtIn
            o == fmtOut
        IN /\ v.t \in {"pretty", "nil", "int", "bool"} => o = v
           /\ (v.t = "string" /\ ~FmtDelimited(v.s)) => o = v
           /\ (v.t = "string" /\ FmtDelimited(v.s) /\ ~FmtParses(v.s)) => o = v
           /\ (v.t = "string" /\ FmtDelimited(v.s) /\ FmtParses(v.s)) =>
                  /\ o = VStr(marshalIndent(jsonUnmarshal(FmtCore(v.s)).v, 0))
                  /\ FmtTwoSpaceIndented(o.s)
           /\ FmtComposite(v) =>
                  /\ o = VStr(marshalIndent(jsonMarshalValue(v).j, 0))
                  /\ FmtTwoSpaceIndented(o.s)
           /\ o # v =>
                  \/ v.t = "string" /\ FmtDelimited(v.s) /\ FmtParses(v.s)
                  \/ FmtComposite(v)

\* A delimited string with white space around it that does not parse came
\* back as it was, and so did a prettyValue
C19_Witness ==
    /\ fmtPc = "done"
    /\ \/ /\ fmtIn = VStr(<<" ", "{", ",", "}">>)
          /\ fmtOut = fmtIn
       \/ /\ fmtIn = VPretty(VMap(DocA1))
          /\ fmtOut = fmtIn

\* The document a string holds
FmtParsed(s) == jsonUnmarshal(s).v

\* C20: when the input is a string holding a valid JSON object, the output
\* of autoFormatJSON parses to the same map as the input, and formatting
\* that output again and parsing the result gives the same map once more
C20_RoundTrip ==
    (/\ fmtPc = "done"
     /\ fmtIn.t = "string"
     /\ jsonUnmarshal(fmtIn.s).ok
     /\ FmtParsed(fmtIn.s).t = "obj") =>
        LET again == autoFormatJSON(fmtOut) IN
        /\ fmtOut.t = "string"
        /\ jsonUnmarshal(fmtOut.s).ok
        /\ FmtParsed(fmtOut.s) = FmtParsed(fmtIn.s)
        /\ again.t = "string"
        /\ jsonUnmarshal(again.s).ok
        /\ FmtParsed(again.s) = FmtParsed(fmtIn.s)

\* {"b":2,"a":1} came back on four lines with its keys in order
C20_Witness ==
    /\ fmtPc = "done"
    /\ fmtIn = VStr(<<"{", QT, "b", QT, ":", "2", ",", QT, "a", QT, ":", "1", "}">>)
    /\ fmtOut = VStr(<<"{", NL, " ", " ", QT, "a", QT, ":", " ", "1", ",", NL,
                       " ", " ", QT, "b", QT, ":", " ", "2", NL, "}">>)

-----------------------------------------------------------------------------
(* Scenario "colour": levelColorSlog (503-514) and applyMultilineColor      *)
(* (657-682) applied to one rendered event, as colorTextHandler.Handle does *)
(* at 636-638.  The event is put together from at most MaxColFrags          *)
(* fragments; a rendered event holds no ESC byte (the text encoder quotes   *)
(* it), so no fragment has one.                                             *)

MaxColFrags == 4

ColFragments == { <<"m">>, <<" ">>, <<NL>>, <<"k", "=", QT, "{">>, <<"}", QT>> }

\* The four levels, and levels below, between and above them
ColLevels == {LevelDebug - 4, LevelDebug, LevelDebug + 1, LevelInfo, LevelInfo + 2,
              LevelWarn, LevelWarn + 1, LevelError, LevelError + 4}

\* A record of some level arrives
ColBegin ==
    /\ colPc = "idle"
    /\ \E l \in ColLevels : colLevel' = l
    /\ colPc' = "render"
    /\ UNCHANGED <<colIn, colN, colOut, pkgVars, colOthers>>

\* One more fragment of the rendered event
ColAddFragment ==
    /\ colPc = "render"
    /\ colN < MaxColFrags
    /\ \E f \in ColFragments : colIn' = colIn \o f
    /\ colN' = colN + 1
    /\ UNCHANGED <<colLevel, colOut, colPc, pkgVars, colOthers>>

\* color := levelColorSlog(r.Level); b = applyMultilineColor(b, color)
ColApply ==
    /\ colPc = "render"
    /\ colOut' = applyMultilineColor(colIn, levelColorSlog(colLevel))
    /\ colPc' = "done"
    /\ UNCHANGED <<colIn, colN, colLevel, pkgVars, colOthers>>

ColNext == ColBegin \/ ColAddFragment \/ ColApply

SpecColor == Init /\ [][ColNext]_vars

\* The colour of the band the level is in
ColBand(lvl) ==
    CASE lvl <= LevelDebug -> ansiBlue
      [] lvl > LevelDebug /\ lvl < LevelWarn -> ansiGreen
      [] lvl >= LevelWarn /\ lvl < LevelError -> ansiYellow
      [] lvl >= LevelError -> ansiRed

\* b without its last byte when that is a newline
ColBody(b) == IF b # <<>> /\ b[Len(b)] = NL THEN SubSeq(b, 1, Len(b) - 1) ELSE b

\* The lines of b as pairs <<first, last>> of positions (last = first - 1
\* for an empty line): a line starts at 1 and after every newline, and ends
\* before the next newline or at the end
ColLineSpans(b) ==
    { <<p, q>> \in (1..(Len(b) + 1)) \X (0..Len(b)) :
        /\ p = 1 \/ b[p - 1] = NL
        /\ q >= p - 1
        /\ \A i \in p..q : b[i] # NL
        /\ q = Len(b) \/ b[q + 1] = NL }

\* b with every ANSI code taken out
RECURSIVE ColStrip(_)
ColStrip(b) ==
    IF b = <<>> THEN <<>>
    ELSE IF Head(b) = ESC
    THEN LET m == CHOOSE i \in 1..Len(b) : b[i] = "m" /\ \A j \in 1..(i - 1) : b[j] # "m"
         IN ColStrip(SubSeq(b, m + 1, Len(b)))
    ELSE <<Head(b)>> \o ColStrip(Tail(b))

\* C17: for a non-empty event, the output is the input's lines, each as
\* colour code + line + reset code, with newlines between them and the
\* input's trailing newline after the last reset; the colour is that of the
\* level's band; a reset comes just before every newline, and the output
\* without the codes is the input
C17_LinesWrapped ==
    (colPc = "done" /\ colIn # <<>>) =>
        LET color == ColBand(colLevel)
            inBody == ColBody(colIn)
            outBody == ColBody(colOut)
            inSpans == ColLineSpans(inBody)
            outSpans == ColLineSpans(outBody)
            wrapped(span) == color \o SubSeq(inBody, span[1], span[2]) \o ansiReset
        IN /\ (colOut[Len(colOut)] = NL) <=> (colIn[Len(colIn)] = NL)
           /\ Cardinality(outSpans) = Cardinality(inSpans)
           /\ \A span \in inSpans :
                 LET k == Cardinality({s \in inSpans : s[1] < span[1]})
                     o == CHOOSE s \in outSpans :
                              Cardinality({r \in outSpans : r[1] < s[1]}) = k
                 IN SubSeq(outBody, o[1], o[2]) = wrapped(span)
           /\ \A i \in 1..Len(colOut) :
                 colOut[i] = NL => (i > 4 /\ SubSeq(colOut, i - 4, i - 1) = ansiReset)
           /\ ColStrip(colOut) = colIn

\* An error event of two lines and a trailing newline came out with each
\* line in red and the newline last
C17_Witness ==
    /\ colPc = "done"
    /\ colLevel = LevelError + 4
    /\ colIn = <<"k", "=", QT, "{", NL, "}", QT, NL>>
    /\ colOut = ansiRed \o <<"k", "=", QT, "{">> \o ansiReset \o <<NL>>
                \o ansiRed \o <<"}", QT>> \o ansiReset \o <<NL>>

\* ---------------------------------------------------------------------------
\* The emission scenario: one Setup, then one call of an entry point with
\* up to MaxArgs arguments: a function of the package, a method of the
\* SugaredLogger, With and a method of the derived logger, or Info or Error
\* of a sink
\* ---------------------------------------------------------------------------

MaxArgs == 3

\* The arguments: strings (one empty), an int, a map and nil
EmVals == {VStr(<<"x">>), VInt(42), VStr(<<>>), VMap(DocA1), VNil}

RECURSIVE EmLists(_)
EmLists(n) ==
    IF n = 0 THEN {<<>>}
    ELSE EmLists(n - 1)
         \cup {Append(l, v) : l \in {m \in EmLists(n - 1) : Len(m) = n - 1}, v \in EmVals}

EmArgs == EmLists(MaxArgs)

\* The values a sink holds from WithValues
EmSinkKVs == { <<>>, <<VStr(<<"s">>), VStr(<<"w">>), VStr(<<"t">>), VInt(1)>> }

EmMsg == <<"m">>
EmErr == VErr(<<"b", "o", "o", "m">>)

\* The Options of the Setup: text, colour or JSON at debug or error, the
\* caller attribute on for plain text at debug
EmOptions ==
    { [Level |-> name, JSON |-> json, AddCaller |-> FALSE,
       ColorizeLine |-> color, UnescapeMultiline |-> FALSE]
        : name \in {strDebug, strError}, json \in BOOLEAN, color \in BOOLEAN }
    \cup { [Level |-> strDebug, JSON |-> FALSE, AddCaller |-> TRUE,
            ColorizeLine |-> FALSE, UnescapeMultiline |-> FALSE] }

\* The record of a call, with the mark that it was made
madeRecord(rec) ==
    [level |-> rec.level, msg |-> rec.msg, attrs |-> rec.attrs, made |-> TRUE]

EmSetup ==
    /\ emPc = "start"
    /\ \E opts \in EmOptions : Setup(opts)
    /\ emPc' = "configured"
    /\ UNCHANGED <<arrays, stdout, once, emCall, emRec, emOut, emOthers>>

\* Debug, Info, Warn or Error of the package (140-149, 222-234)
EmPackage ==
    /\ emPc = "configured"
    /\ \E level \in {LevelInfo, LevelError}, args \in EmArgs :
          \E r \in {logArgs(arrays, handlers[base], level, args, addCaller, doUnescape)} :
          /\ emCall' = [EmNoCall EXCEPT !.entry = "package", !.level = level, !.args = args,
                                      !.parent = base, !.child = base]
          /\ emRec' = IF args # <<>> /\ handlerEnabled(handlers[base], level)
                      THEN madeRecord(newRecord(level, goSprintValue(args[1]), Tail(args), addCaller))
                      ELSE EmNoRecord
          /\ emOut' = r.out
          /\ stdout' = stdout \o r.out
    /\ emPc' = "returned"
    /\ UNCHANGED <<base, addCaller, doUnescape, handlers, arrays, mu, once, emOthers>>

\* Debug, Info, Warn or Error of the SugaredLogger that Logger() gave
\* (134-137, 186-197)
EmSugared ==
    /\ emPc = "configured"
    /\ \E level \in {LevelInfo, LevelError}, args \in EmArgs :
          \E r \in {sugaredLog(arrays, handlers[base], level, args, doUnescape)} :
          /\ emCall' = [EmNoCall EXCEPT !.entry = "sugared", !.level = level, !.args = args,
                                      !.parent = base, !.child = base]
          /\ emRec' = IF handlerEnabled(handlers[base], level)
                      THEN madeRecord(slogRecord(level, goSprint(args), <<>>))
                      ELSE EmNoRecord
          /\ emOut' = r.out
          /\ stdout' = stdout \o r.out
    /\ emPc' = "returned"
    /\ UNCHANGED <<base, addCaller, doUnescape, handlers, arrays, mu, once, emOthers>>

\* With(kv...) of the package or of the SugaredLogger (178-181, 210-212)
EmWith ==
    /\ emPc = "configured"
    /\ \E kv \in EmArgs :
          \E r \in {sugaredWith(handlers, arrays, base, kv)} :
          /\ emCall' = [EmNoCall EXCEPT !.entry = "with", !.args = kv,
                                      !.parent = base, !.child = r.id]
          /\ handlers' = r.handlers
          /\ arrays' = r.arrays
    /\ emPc' = "derived"
    /\ UNCHANGED <<base, addCaller, doUnescape, mu, once, stdout, emRec, emOut, emOthers>>

\* Error(EmMsg) of the SugaredLogger that With gave (195-197)
EmDerivedError ==
    /\ emPc = "derived"
    /\ \E r \in {sugaredLog(arrays, handlers[emCall.child], LevelError, <<VStr(EmMsg)>>, doUnescape)} :
          /\ emRec' = madeRecord(slogRecord(LevelError, EmMsg, <<>>))
          /\ emOut' = r.out
          /\ stdout' = stdout \o r.out
    /\ emCall' = [emCall EXCEPT !.entry = "derived", !.level = LevelError]
    /\ emPc' = "returned"
    /\ UNCHANGED <<base, addCaller, doUnescape, handlers, arrays, mu, once, emOthers>>

\* Info(v, EmMsg, kvs...) of the sink that Logr() gave, after WithName and
\* WithValues or not (127-131, 790-804)
EmSinkInfo ==
    /\ emPc = "configured"
    /\ \E v \in 0..1, name \in {<<>>, <<"n">>}, skv \in EmSinkKVs, kvs \in EmArgs :
          \E r \in {slogSinkInfo(handlers, arrays, base, name, skv, v, EmMsg, kvs, doUnescape)} :
          /\ emCall' = [EmNoCall EXCEPT !.entry = "sinkInfo", !.level = sinkLevel(v), !.args = kvs,
                                      !.name = name, !.skv = skv,
                                      !.parent = base, !.child = Len(r.handlers)]
          /\ emRec' = IF handlerEnabled(handlers[base], sinkLevel(v))
                      THEN madeRecord(slogRecord(sinkLevel(v), EmMsg, convertKVs(kvs)))
                      ELSE EmNoRecord
          /\ handlers' = r.handlers
          /\ arrays' = r.arrays
          /\ emOut' = r.out
          /\ stdout' = stdout \o r.out
    /\ emPc' = "returned"
    /\ UNCHANGED <<base, addCaller, doUnescape, mu, once, emOthers>>

\* Error(err, EmMsg, kvs...) of the sink that Logr() gave, after WithName
\* and WithValues or not (806-816)
EmSinkError ==
    /\ emPc = "configured"
    /\ \E name \in {<<>>, <<"n">>}, skv \in EmSinkKVs, kvs \in EmArgs :
          \E r \in {slogSinkError(handlers, arrays, base, name, skv, EmErr, EmMsg, kvs, doUnescape)} :
          /\ emCall' = [EmNoCall EXCEPT !.entry = "sinkError", !.level = LevelError, !.args = kvs,
                                      !.name = name, !.skv = skv, !.err = EmErr,
                                      !.parent = base, !.child = Len(r.handlers)]
          /\ emRec' = IF handlerEnabled(handlers[base], LevelError)
                      THEN madeRecord(slogRecord(LevelError, EmMsg,
                                                 convertKVs(kvs) \o <<VStr(strErr), EmErr>>))
                      ELSE EmNoRecord
          /\ handlers' = r.handlers
          /\ arrays' = r.arrays
          /\ emOut' = r.out
          /\ stdout' = stdout \o r.out
    /\ emPc' = "returned"
    /\ UNCHANGED <<base, addCaller, doUnescape, mu, once, emOthers>>

EmNext ==
    EmSetup \/ EmPackage \/ EmSugared \/ EmWith \/ EmDerivedError \/ EmSinkInfo \/ EmSinkError

SpecEmit == Init /\ [][EmNext]_vars

\* The line a handler of kind `kind` over the groups gs writes for an event
\* with the attributes first and then second, as its encoder renders them
EmLine(kind, gs, level, msg, first, second) ==
    IF kind = "json"
    THEN jsonLine(level, msg, gs, nestAttrs(Len(gs), first \o second))
    ELSE IF kind = "color"
    THEN applyMultilineColor(textLine(level, msg, qualifyAttrs(gs, first), qualifyAttrs(gs, second)),
                             levelColorSlog(level))
    ELSE textLine(level, msg, qualifyAttrs(gs, first), qualifyAttrs(gs, second))

\* The handler the last call went through, and whether it lets the call's
\* level pass
EmHandler == handlers[emCall.parent]
EmEnabled == emCall.level >= EmHandler.level

\* The line of Info("x", 42) with its arguments concatenated
EmLineX42 ==
    <<"t", "i", "m", "e", "=", "T", " ", "l", "e", "v", "e", "l", "=", "I", "N", "F", "O",
      " ", "m", "s", "g", "=", "x", "4", "2", NL>>

\* The line of Info("x", 42) with 42 read as a key
EmLineX42Missing ==
    <<"t", "i", "m", "e", "=", "T", " ", "l", "e", "v", "e", "l", "=", "I", "N", "F", "O",
      " ", "m", "s", "g", "=", "x", " ", "4", "2", "=", "<", "m", "i", "s", "s", "i", "n", "g", ">", NL>>

EmIsX42 == emCall.args = <<VStr(<<"x">>), VInt(42)>> /\ emCall.level = LevelInfo

RECURSIVE EmPairs(_)
EmPairs(kvs) ==
    IF kvs = <<>> THEN <<>>
    ELSE LET key == IF kvs[1].t = "string" /\ kvs[1].s # <<>>
                    THEN kvs[1].s ELSE goSprintValue(kvs[1])
             val == IF Len(kvs) >= 2 THEN autoFormatJSON(kvs[2]) ELSE VStr(strMissing)
         IN <<[k |-> key, v |-> val]>> \o EmPairs(SubSeq(kvs, 3, Len(kvs)))

EmCaller == IF addCaller THEN <<CallerAttr>> ELSE <<>>

EmWithList == convertKVs(emCall.args)

\* The pretty text of the map {"a":1}, which autoFormatJSON makes of it
EmPrettyA1 == VStr(<<"{", NL, " ", " ", QT, "a", QT, ":", " ", "1", NL, "}">>)

\* C13: With(keysAndValues...) makes a list of odd length even by adding
\* "<missing>" at its end, passes every value (odd 0-based index) and no
\* key (even 0-based index) through autoFormatJSON, and returns a logger
\* over a handler derived from the parent's, which holds the parent's
\* attributes and then those of the list, the parent staying as it was
C13_WithNormalizes ==
    (emPc = "derived" /\ emCall.entry = "with") =>
        LET kv == emCall.args
            out == EmWithList
            n == Len(kv)
        IN /\ Len(out) % 2 = 0
           /\ Len(out) = IF n % 2 = 1 THEN n + 1 ELSE n
           /\ n % 2 = 1 => out[n + 1] = VStr(strMissing)
           /\ \A i \in 1..n : i % 2 = 1 => out[i] = kv[i]
           /\ \A i \in 1..n : i % 2 = 0 => out[i] = autoFormatJSON(kv[i])
           /\ \A i \in 1..n : (i % 2 = 0 /\ kv[i] = VMap(DocA1)) => out[i] = EmPrettyA1
           /\ kv # <<>> =>
                 /\ emCall.child # emCall.parent
                 /\ emCall.child \in 1..Len(handlers)
                 /\ AttrsOf(emCall.child)
                        = AttrsOf(emCall.parent)
                          \o keptAttrs(EmHandler.kind, GroupsOf(emCall.parent), argsToAttrs(out))
                 /\ AttrsOf(emCall.parent) = <<>>
                 /\ handlers[emCall.child].kind = handlers[emCall.parent].kind
                 /\ handlers[emCall.child].level = handlers[emCall.parent].level

C13_Witness ==
    /\ emPc = "derived"
    /\ emCall.entry = "with"
    /\ Len(emCall.args) = 3
    /\ emCall.args[1] = VMap(DocA1)
    /\ emCall.args[2] = VMap(DocA1)
    /\ EmWithList[1] = VMap(DocA1)
    /\ EmWithList[2] = EmPrettyA1
    /\ EmWithList[4] = VStr(strMissing)
    /\ emCall.child # emCall.parent

\* The attributes a call gives at its call site, as the entry point reads
\* them, and those its logger holds from earlier derivations
EmCallSite ==
    IF emCall.entry = "package" THEN EmCaller \o EmPairs(Tail(emCall.args))
    ELSE IF emCall.entry = "sinkInfo" THEN argsToAttrs(convertKVs(emCall.args))
    ELSE IF emCall.entry = "sinkError"
    THEN argsToAttrs(convertKVs(emCall.args) \o <<VStr(strErr), emCall.err>>)
    ELSE <<>>

EmInherited ==
    IF emCall.entry \in {"sinkInfo", "sinkError"} THEN argsToAttrs(convertKVs(emCall.skv))
    ELSE IF emCall.entry = "derived" THEN argsToAttrs(convertKVs(emCall.args))
    ELSE <<>>

EmGroups == IF emCall.name # <<>> THEN <<emCall.name>> ELSE <<>>

\* The line of Info(0, "m", "x", "x") of a sink that holds s=w, t=1 with
\* the attribute of the call before those of the sink
EmLineCallFirst ==
    <<"t", "i", "m", "e", "=", "T", " ", "l", "e", "v", "e", "l", "=", "I", "N", "F", "O",
      " ", "m", "s", "g", "=", "m", " ", "x", "=", "x",
      " ", "s", "=", "w", " ", "t", "=", "1", NL>>

\* C14: every event written, on the JSON and on the text handlers, has its
\* fields in this order: time, level, message, the attributes of the call
\* in the order of the call, then the attributes the logger holds from
\* earlier derivations, the oldest derivation first
C14_CallSiteThenInherited ==
    (emPc = "returned" /\ emRec.made) =>
        /\ emOut = EmLine(EmHandler.kind, EmGroups, emRec.level, emRec.msg, EmCallSite, EmInherited)
        /\ (/\ emCall.entry = "sinkInfo" /\ EmHandler.kind = "text" /\ emCall.name = <<>>
            /\ emCall.level = LevelInfo /\ emCall.skv # <<>>
            /\ emCall.args = <<VStr(<<"x">>), VStr(<<"x">>)>>)
           => emOut = EmLineCallFirst

\* C15: Error(err, msg, kvs...) of a sink always makes an event at the
\* level of errors, whatever the sink's name and values, and the event has
\* the error under the key "err" after the attributes of the caller's
\* pairs: one attribute for every pair of the list made even, then err
C15_ErrAfterPairs ==
    (emPc = "returned" /\ emCall.entry = "sinkError") =>
        /\ emRec.made
        /\ emRec.level = LevelError
        /\ Len(emRec.attrs) = ((Len(emCall.args) + 1) \div 2) + 1
        /\ emRec.attrs[Len(emRec.attrs)] = [k |-> strErr, v |-> emCall.err]
        /\ EmHandler.kind = "text" =>
              LET tail == <<" ">> \o (IF emCall.name # <<>> THEN emCall.name \o <<".">> ELSE <<>>)
                          \o <<"e", "r", "r", "=", "b", "o", "o", "m", NL>>
              IN /\ Len(emOut) >= Len(tail)
                 /\ SubSeq(emOut, Len(emOut) - Len(tail) + 1, Len(emOut)) = tail

\* ---------------------------------------------------------------------------
\* The sink scenario: WithValues, WithName and Info on the sinks derived
\* from the one Logr() gave, the kv lists being slices over shared arrays
\* ---------------------------------------------------------------------------

MaxSinks == 2

\* What WithValues is given: a key with a map, a key alone
SkKVs == { <<VStr(<<"k">>), VMap(DocA1)>>, <<VStr(<<"j">>)>> }

SkNameSet == { <<"a">>, <<"b">> }

\* kv[i] = autoFormatJSON(kv[i]) for i = 1, 3, ... (345-347) written into
\* the array of the slice a.s
formatValuesInPlace(a) ==
    IF a.s.arr = 0 THEN a
    ELSE [arrays |-> [k \in 1..Len(a.arrays) |->
                        IF k # a.s.arr THEN a.arrays[k]
                        ELSE [i \in 1..Len(a.arrays[k]) |->
                                IF i <= a.s.len /\ i % 2 = 0
                                THEN autoFormatJSON(a.arrays[k][i])
                                ELSE a.arrays[k][i]]],
          s |-> a.s]

\* convertKVs (339-349) on the slice sl of the heap arrs: the append of
\* "<missing>" when the length is odd, then the values formatted in the
\* array of the result
convertKVsSlice(arrs, sl) ==
    formatValuesInPlace(IF sl.len % 2 = 1
                        THEN goAppend(arrs, sl, <<VStr(strMissing)>>, VNil)
                        ELSE [arrays |-> arrs, s |-> sl])

\* slogSink.WithValues (818-820): a new sink with the name of s and
\* append(append([]any(nil), s.kv...), keysAndValues...)
slogSinkWithValues(arrs, s, kvs) ==
    LET c1 == goAppend(arrs, NilSlice, sliceElems(arrs, s.kv), VNil)
        c2 == goAppend(c1.arrays, c1.s, kvs, VNil)
    IN [arrays |-> c2.arrays, sink |-> [name |-> s.name, kv |-> c2.s]]

\* WithName with kv: s.kv, without the copy
slogSinkWithNameShared(arrs, s, name) ==
    [arrays |-> arrs,
     sink |-> [name |-> IF s.name # <<>> THEN s.name \o <<"/">> \o name ELSE name,
               kv |-> s.kv]]

\* slogSink.WithName (822-829): a new sink named name, or s.name + "/" +
\* name when s has a name, with a copy of s.kv
slogSinkWithName(arrs, s, name) ==
    LET c == goAppend(arrs, NilSlice, sliceElems(arrs, s.kv), VNil)
    IN [arrays |-> c.arrays,
        sink |-> [name |-> IF s.name # <<>> THEN s.name \o <<"/">> \o name ELSE name,
                  kv |-> c.s]]

SkWithValues ==
    /\ Len(skSinks) <= MaxSinks
    /\ \E p \in 1..Len(skSinks), kvs \in SkKVs :
          \E r \in {slogSinkWithValues(skArrays, skSinks[p], kvs)} :
          /\ skSinks' = Append(skSinks, r.sink)
          /\ skArrays' = r.arrays
          /\ skNames' = Append(skNames, skNames[p])
          /\ skLast' = [op |-> "WithValues", sink |-> p, child |-> Len(skSinks) + 1,
                        arg |-> kvs, after |-> kvs]
    /\ UNCHANGED <<pkgVars, skOthers>>

SkWithName ==
    /\ Len(skSinks) <= MaxSinks
    /\ \E p \in 1..Len(skSinks), name \in SkNameSet :
          \E r \in {slogSinkWithName(skArrays, skSinks[p], name)} :
          /\ skSinks' = Append(skSinks, r.sink)
          /\ skArrays' = r.arrays
          /\ skNames' = Append(skNames, Append(skNames[p], name))
          /\ skLast' = [op |-> "WithName", sink |-> p, child |-> Len(skSinks) + 1,
                        arg |-> name, after |-> name]
    /\ UNCHANGED <<pkgVars, skOthers>>

\* What the callers pass as keysAndValues: nothing, or one of SkKVs
SkArgs == {<<>>} \cup SkKVs

\* The slice a caller passes for the list kv, in a heap of its own, and what
\* the caller finds in it once convertKVs(kv) has run on it
callerSlice(kv) == IF kv = <<>> THEN NilSlice ELSE [arr |-> 1, len |-> Len(kv)]

callerSliceAfter(kv) ==
    sliceElems(convertKVsSlice(IF kv = <<>> THEN <<>> ELSE <<kv>>, callerSlice(kv)).arrays,
               callerSlice(kv))

\* convertKVs(s.kv) of Info and Error (795-797, 810-812), run when the list
\* of the sink is not empty
sinkListConverted(arrs, sl) ==
    IF sl.len > 0 THEN convertKVsSlice(arrs, sl).arrays ELSE arrs

\* Info or Error of sink p with the arguments kvs (790-816), as far as the
\* lists go: convertKVs(s.kv) and convertKVs(keysAndValues); an array the
\* append in them made is held by no one and is gone after the call
SkInfo ==
    /\ \E p \in 1..Len(skSinks), kvs \in SkArgs :
          /\ skArrays' = SubSeq(sinkListConverted(skArrays, skSinks[p].kv), 1, Len(skArrays))
          /\ skLast' = [op |-> "Info", sink |-> p, child |-> p,
                        arg |-> kvs, after |-> callerSliceAfter(kvs)]
    /\ UNCHANGED <<skSinks, skNames, pkgVars, skOthers>>

\* With(kv...) of the package or of a SugaredLogger (178-181, 210-212), as
\* far as the caller's slice goes: convertKVs(kv)
SkWith ==
    /\ \E kv \in SkArgs :
          skLast' = [op |-> "With", sink |-> 0, child |-> 0,
                     arg |-> kv, after |-> callerSliceAfter(kv)]
    /\ UNCHANGED <<skSinks, skArrays, skNames, pkgVars, skOthers>>

SkNext == SkWithValues \/ SkWithName \/ SkInfo \/ SkWith

SpecSink == Init /\ [][SkNext]_vars

\* The kv list sink i shows
SkKV(i) == sliceElems(skArrays, skSinks[i].kv)

\* The names joined with "/"
RECURSIVE SkJoin(_)
SkJoin(names) ==
    IF names = <<>> THEN <<>>
    ELSE IF Len(names) = 1 THEN names[1]
    ELSE names[1] \o <<"/">> \o SkJoin(Tail(names))

\* What the last call gave: WithValues a sink with the parent's name and
\* the parent's list followed by the values given, WithName a sink with the
\* parent's list and the name given, after the parent's name and "/" when
\* it has one; every sink's name is the names it was given joined by "/"
SkChildRight ==
    /\ skLast.op = "WithValues" =>
          /\ skLast.child = Len(skSinks)
          /\ skSinks[skLast.child].name = skSinks[skLast.sink].name
          /\ SkKV(skLast.child) = SkKV(skLast.sink) \o skLast.arg
    /\ skLast.op = "WithName" =>
          /\ skLast.child = Len(skSinks)
          /\ skSinks[skLast.child].name
                = IF skSinks[skLast.sink].name = <<>> THEN skLast.arg
                  ELSE skSinks[skLast.sink].name \o <<"/">> \o skLast.arg
          /\ SkKV(skLast.child) = SkKV(skLast.sink)
    /\ \A i \in 1..Len(skSinks) : skSinks[i].name = SkJoin(skNames[i])

\* A step leaves the name and the list of every sink there was as they
\* were, but for the list of the sink whose Info ran
SkOthersKept ==
    \A i \in 1..Len(skSinks) :
        (skLast'.op = "Info" /\ skLast'.sink = i)
        \/ (/\ skSinks'[i] = skSinks[i]
            /\ sliceElems(skArrays', skSinks'[i].kv) = SkKV(i))

\* C16: WithValues(kvs...) of a sink S gives a new sink with S's list
\* followed by kvs, WithName(n) a new sink named n, or S.name + "/" + n
\* when S has a name, so that the names n1..nk give "n1/.../nk"; S's name
\* and list stay as they were, and what later happens to the child's list
\* does not show through S
C16_SinksCopyOnExtend == []SkChildRight /\ [][SkOthersKept]_vars

C16_Witness ==
    /\ skLast.op = "Info"
    /\ skLast.sink = 3
    /\ Len(skSinks) = 3
    /\ skSinks[2].name = <<>>
    /\ skSinks[3].name = <<"a">>
    /\ SkKV(2) = <<VStr(<<"k">>), VMap(DocA1)>>
    /\ SkKV(3) = <<VStr(<<"k">>), EmPrettyA1>>

\* A step leaves the list of every sink there was as it was
SkListsKept ==
    \A i \in 1..Len(skSinks) : sliceElems(skArrays', skSinks'[i].kv) = SkKV(i)

\* C25: With, Info and Error change neither the slice the caller passed nor
\* the list of the sink they are called on: after the call the caller's
\* slice and every sink's list hold the elements they held before
C25_NoWritesToLists == [](skLast.after = skLast.arg) /\ [][SkListsKept]_vars

\* The attributes Info and Error of sink i give its logger for the list the
\* sink holds (795-797): those slog reads from convertKVs(s.kv)
SkAttrs(i) == argsToAttrs(convertKVs(SkKV(i)))

\* The pairs of one call of WithValues, as given: each key with the value
\* passed next to it, "<missing>" for a last key without one
RECURSIVE SkPairs(_)
SkPairs(kvs) ==
    IF kvs = <<>> THEN <<>>
    ELSE <<[k |-> kvs[1].s,
            v |-> IF Len(kvs) >= 2 THEN autoFormatJSON(kvs[2]) ELSE VStr(strMissing)]>>
         \o SkPairs(SubSeq(kvs, 3, Len(kvs)))

\* C29: the pairs given to a sink stay paired as given across derivations:
\* the sink WithValues(kvs...) returns emits the attributes of its parent
\* and then the pairs of kvs, a key without a value with "<missing>", and
\* no argument of the call becomes the value of an earlier key
C29_PairsStayPaired ==
    skLast.op = "WithValues" =>
        SkAttrs(skLast.child) = SkAttrs(skLast.sink) \o SkPairs(skLast.arg)

-----------------------------------------------------------------------------
(* Group qualification of derived attributes: the custom handlers against   *)
(* slog's text handler for the same With / WithGroup sequence.              *)

\* The attributes slog's text handler holds after the derivation sequence
\* that led to handler i: WithAttrs qualifies the attributes with the
\* groups open at the time of the call, WithGroup leaves them as they are
RECURSIVE StdTextAttrs(_)
StdTextAttrs(i) ==
    IF \E c \in dvCalls : c.child = i
    THEN LET c == CHOOSE d \in dvCalls : d.child = i
         IN IF c.op = "With"
            THEN StdTextAttrs(c.parent) \o qualifyAttrs(GroupsOf(c.parent), c.arg)
            ELSE StdTextAttrs(c.parent)
    ELSE <<>>

DvRecord == [level |-> LevelInfo, msg |-> <<"m">>, attrs |-> <<[k |-> <<"r">>, v |-> VStr(<<"0">>)]>>]

\* The line slog's text handler writes for DvRecord after the derivation
\* sequence of handler i
StdTextLine(i) ==
    textLine(DvRecord.level, DvRecord.msg, StdTextAttrs(i), qualifyAttrs(GroupsOf(i), DvRecord.attrs))

\* C27: for every sequence of With and WithGroup derivations the custom
\* colorized and unescaping text handlers emit the same group-qualified
\* attribute keys, in the same order, as the standard text handler given
\* the same sequence: an attribute added before WithGroup stays outside the
\* group, one added after it is inside.
C27_GroupsAsTextHandler ==
    \A i \in 1..Len(handlers) :
        handlers[i].kind \in {"color", "plain"} =>
            renderRecord(arrays, handlers[i], DvRecord) = StdTextLine(i)

\* The handlers that can write to the stream: those of the handles held and
\* the one a lookup gets now
StLive == {stHandles[i].h : i \in 1..Len(stHandles)} \cup (IF base = 0 THEN {} ELSE {base})

\* C26: at every moment all logger handles that can write to the output
\* stream, those obtained before a later Setup and those obtained after it,
\* serialize their writes through one and the same lock.
C26_OneLockForAll ==
    \A i, j \in StLive : handlers[i].w = handlers[j].w

-----------------------------------------------------------------------------
(* The explicit-Setup scenario: one goroutine calls Setup(opts) while the   *)
(* goroutines of Callers make their first use through ensure().  Setup      *)
(* takes no lock: its writes of the flags (74-75) and of base (100) are     *)
(* separate steps among those of the other goroutines.                      *)

XsOptions ==
    { [Level |-> strDebug, JSON |-> FALSE, AddCaller |-> TRUE,
       ColorizeLine |-> color, UnescapeMultiline |-> TRUE] : color \in BOOLEAN }

\* Setup(opts), first half: the two flags (74-75)
XsSetupFlags ==
    /\ xsPc = "start"
    /\ \E opts \in XsOptions :
          /\ xsOpts' = opts
          /\ addCaller' = opts.AddCaller
          /\ doUnescape' = opts.UnescapeMultiline
    /\ xsPc' = "handler"
    /\ UNCHANGED <<base, handlers, arrays, mu, stdout, once, xsBase, xsOthers>>

\* Setup(opts), second half: the handler and base = slog.New(h) (76-100);
\* the switch reads the package flag doUnescape (97)
XsSetupBase ==
    /\ xsPc = "handler"
    /\ handlers' = Append(handlers, setupHandler(xsOpts, Len(mu) + 1, doUnescape))
    /\ mu' = Append(mu, 0)
    /\ base' = Len(handlers) + 1
    /\ xsBase' = Len(handlers) + 1
    /\ xsPc' = "returned"
    /\ UNCHANGED <<addCaller, doUnescape, arrays, stdout, once, xsOpts, xsOthers>>

XsNext == EnNext \/ XsSetupFlags \/ XsSetupBase

SpecExplicit == Init /\ [][XsNext]_vars

\* C24: under any interleaving of an explicit Setup(opts) with concurrent
\* first-use initialization in other goroutines, once Setup(opts) has
\* returned the global state (logger, add-caller flag, unescape flag) is the
\* one of a single Setup call and is never overwritten afterwards by the
\* lazy default configuration: it is the state of Setup(opts).
C24_SetupStands ==
    xsPc = "returned" =>
        /\ base = xsBase
        /\ addCaller = xsOpts.AddCaller
        /\ doUnescape = xsOpts.UnescapeMultiline

\* The line of the stream that carries the k-th event of goroutine g
WrLineOf(g, k) == CHOOSE i \in LinesOf(StreamLines, g, k) : TRUE

\* The events goroutine g's calls have returned from are on the stream as
\* whole lines, in the order of the calls
WrReturnedWritten(g) ==
    \A k \in 1..wrSent[g] :
        /\ Cardinality(LinesOf(StreamLines, g, k)) = 1
        /\ \A k2 \in 1..wrSent[g] : k < k2 => WrLineOf(g, k) < WrLineOf(g, k2)

\* A step only adds bytes at the end of the stream
WrAppendOnly ==
    /\ Len(stdout') >= Len(stdout)
    /\ SubSeq(stdout', 1, Len(stdout)) = stdout

\* C23: every logging call is synchronous: when an enabled call returns its
\* event has already been written to the stream, nothing being buffered or
\* flushed later, so the events one caller issues one after the other
\* through its logger appear on the stream in call order.
C23_WrittenOnReturn ==
    /\ [](\A g \in Writers : WrReturnedWritten(g))
    /\ [][WrAppendOnly]_vars

\* C23 witness: goroutine 1 has returned from both its calls, and its two
\* events are the first and the third line of the stream, an event of
\* goroutine 2 between them.
C23_Witness ==
    /\ wrSent[1] = 2
    /\ WrReturnedWritten(1)
    /\ 1 \in LinesOf(StreamLines, 1, 1)
    /\ 2 \in LinesOf(StreamLines, 2, 1)
    /\ 3 \in LinesOf(StreamLines, 1, 2)

-----------------------------------------------------------------------------
(* CallerResolver: vlog.go 292-322, and the caller scenario.  A stack frame *)
(* (runtime.Frame) is a record [fn, file, line]: the function's qualified   *)
(* name, the file path and the line.  A stack lists the frames of a         *)
(* goroutine, the innermost first.                                          *)

\* const skip = 4 (295) and the length of pcs (296)
skip == 4
MaxPCs == 32

\* The zero runtime.Frame
NoFrame == [fn |-> <<>>, file |-> <<>>, line |-> 0]

\* "/pkg/loggers/vlog." (300)
vlogMarker ==
    <<"/", "p", "k", "g", "/", "l", "o", "g", "g", "e", "r", "s", "/", "v", "l", "o", "g", ".">>

\* findExternalCaller on the stack of the goroutine, runtime.Callers being
\* its innermost frame: the frames from number skip on, at most MaxPCs of
\* them; the first whose function is unnamed or does not hold the marker
\* gives file and line, and none gives "", 0
findExternalCaller(stack) ==
    LET n == IF Len(stack) - skip > MaxPCs THEN MaxPCs
             ELSE IF Len(stack) > skip THEN Len(stack) - skip ELSE 0
        hits == {i \in 1..n : \/ stack[skip + i].fn = <<>>
                              \/ ~bytesContains(stack[skip + i].fn, vlogMarker)}
    IN IF hits = {} THEN NoFrame
       ELSE stack[skip + (CHOOSE i \in hits : \A j \in hits : i <= j)]

\* strings.Split(p, "/")
RECURSIVE stringsSplitSlash(_)
stringsSplitSlash(p) ==
    LET i == bytesIndex(p, <<"/">>) IN
    IF i = -1 THEN <<p>>
    ELSE <<Slice(p, 0, i)>> \o stringsSplitSlash(Slice(p, i + 1, Len(p)))

\* shortenPath(p) (313-322): the last two components of a path of more than
\* two
shortenPath(p) ==
    IF p = <<>> THEN p
    ELSE LET parts == stringsSplitSlash(p) IN
         IF Len(parts) <= 2 THEN p
         ELSE parts[Len(parts) - 1] \o <<"/">> \o parts[Len(parts)]

\* The attribute of 255-258 / 277-280 for what findExternalCaller gave: when
\* addCaller is set and the file is not empty, caller = short:line
callerAttrs(ac, stack) ==
    IF ~ac THEN <<>>
    ELSE LET fr == findExternalCaller(stack) IN
         IF fr.file = <<>> THEN <<>>
         ELSE <<[k |-> <<"c", "a", "l", "l", "e", "r">>,
                 v |-> VStr(shortenPath(fr.file) \o <<":">> \o natToBytes(fr.line))]>>

\* The frames of the package
FrCallers == [fn |-> <<"r", "u", "n", "t", "i", "m", "e", ".", "C", "a", "l", "l", "e", "r", "s">>,
              file |-> <<"/", "g", "o", "/", "r", "u", "n", "t", "i", "m", "e", "/", "e", ".", "g", "o">>,
              line |-> 3]
FrVlog(name, line) ==
    [fn |-> <<"c">> \o vlogMarker \o name,
     file |-> <<"/", "c", "/", "p", "k", "g", "/", "l", "o", "g", "g", "e", "r", "s", "/", "v", "l", "o", "g", "/",
                "v", "l", "o", "g", ".", "g", "o">>,
     line |-> line]

\* The stack at runtime.Callers for a call of the package function Info
\* that went through wrapper ("logArgs" or "logMsg"), above being the
\* frames of the calling goroutine
packageStack(wrapper, above) ==
    << FrCallers,
       FrVlog(<<"f", "i", "n", "d">>, 5),
       FrVlog(<<"w", "r", "i", "t", "e">>, 6),
       FrVlog(wrapper, 7),
       FrVlog(<<"I", "n", "f", "o">>, 8) >> \o above

\* User frames: main.run in /home/u/app/cmd/main.go, a function in a.go, one
\* in the relative path x/b.go, a frame without function name and file, and
\* the frame every goroutine ends with
FrMain == [fn |-> <<"m", "a", "i", "n", ".", "r", "u", "n">>,
           file |-> <<"/", "h", "/", "a", "p", "p", "/", "c", "m", "d", "/", "m", ".", "g", "o">>,
           line |-> 42]
FrFlat == [fn |-> <<"m", "a", "i", "n", ".", "f">>, file |-> <<"a", ".", "g", "o">>, line |-> 7]
FrRel == [fn |-> <<"x", ".", "G">>, file |-> <<"x", "/", "b", ".", "g", "o">>, line |-> 10]
FrGoexit == [fn |-> <<"r", "u", "n", "t", "i", "m", "e", ".", "g", "o", "e", "x", "i", "t">>,
             file |-> <<"/", "g", "o", "/", "r", "u", "n", "t", "i", "m", "e", "/", "a", ".", "s">>,
             line |-> 1700]

\* What lies above the entry point: a helper of this package's own code
\* (its tests, a wrapper) or none, then the caller's frames
ClStacks ==
    { pre \o <<fr, FrGoexit>> :
        pre \in { <<>>, <<FrVlog(<<"T">>, 9)>> },
        fr \in {FrMain, FrFlat, FrRel, NoFrame} }

ClOptions ==
    { [Level |-> name, JSON |-> json, AddCaller |-> ac,
       ColorizeLine |-> FALSE, UnescapeMultiline |-> FALSE] :
        name \in {strInfo, strError}, json \in BOOLEAN, ac \in BOOLEAN }

ClMsg == <<"m">>

ClSetup ==
    /\ clPc = "start"
    /\ \E opts \in ClOptions : Setup(opts)
    /\ clPc' = "configured"
    /\ UNCHANGED <<arrays, stdout, once, clCall, clRec, clOut, clOthers>>

\* writeRecord (242-260) on base for the goroutine whose stack at
\* runtime.Callers would be stack
clWriteRecord(level, stack) ==
    IF ~handlerEnabled(handlers[base], level) THEN EmNoRecord
    ELSE madeRecord([level |-> level, msg |-> ClMsg, attrs |-> callerAttrs(addCaller, stack)])

\* Info("m") or Error("m") of the package (141-149): logArgs, writeRecord
ClPackage ==
    /\ clPc = "configured"
    /\ \E level \in {LevelInfo, LevelError}, above \in ClStacks :
          \E rec \in {clWriteRecord(level, packageStack(<<"l", "o", "g", "A">>, above))} :
          \E out \in {IF rec.made THEN handleBytes(arrays, handlers[base], rec, doUnescape) ELSE <<>>} :
          /\ clCall' = [entry |-> "package", level |-> level, stack |-> above]
          /\ clRec' = rec
          /\ clOut' = out
          /\ stdout' = stdout \o out
    /\ clPc' = "returned"
    /\ UNCHANGED <<base, addCaller, doUnescape, handlers, arrays, mu, once, clOthers>>

\* Infof("m") or Errorf("m") of the package (161-164): logMsg, writeRecord
ClPackagef ==
    /\ clPc = "configured"
    /\ \E level \in {LevelInfo, LevelError}, above \in ClStacks :
          \E rec \in {clWriteRecord(level, packageStack(<<"l", "o", "g", "M">>, above))} :
          \E out \in {IF rec.made THEN handleBytes(arrays, handlers[base], rec, doUnescape) ELSE <<>>} :
          /\ clCall' = [entry |-> "packagef", level |-> level, stack |-> above]
          /\ clRec' = rec
          /\ clOut' = out
          /\ stdout' = stdout \o out
    /\ clPc' = "returned"
    /\ UNCHANGED <<base, addCaller, doUnescape, handlers, arrays, mu, once, clOthers>>

\* Info("m") or Error("m") of the SugaredLogger that Logger() gave (134-137,
\* 186-197): s.logger.Log, which makes the record itself
ClSugared ==
    /\ clPc = "configured"
    /\ \E level \in {LevelInfo, LevelError}, above \in ClStacks :
          \E r \in {sugaredLog(arrays, handlers[base], level, <<VStr(ClMsg)>>, doUnescape)} :
          /\ clCall' = [entry |-> "sugared", level |-> level, stack |-> above]
          /\ clRec' = IF handlerEnabled(handlers[base], level)
                      THEN madeRecord(slogRecord(level, goSprint(<<VStr(ClMsg)>>), <<>>))
                      ELSE EmNoRecord
          /\ clOut' = r.out
          /\ stdout' = stdout \o r.out
    /\ clPc' = "returned"
    /\ UNCHANGED <<base, addCaller, doUnescape, handlers, arrays, mu, once, clOthers>>

ClNext == ClSetup \/ ClPackage \/ ClPackagef \/ ClSugared

SpecCaller == Init /\ [][ClNext]_vars

\* The first frame of the caller's stack that lies outside the logging
\* subsystem
ClOutside(above) ==
    LET out == {i \in 1..Len(above) : ~bytesContains(above[i].fn, vlogMarker)}
    IN IF out = {} THEN NoFrame ELSE above[MinOf(out)]

\* The last two segments of a path
ClLastTwo(p) ==
    LET slashes == {i \in 1..Len(p) : p[i] = "/"}
        before == {i \in slashes : Cardinality({j \in slashes : j > i}) = 1}
    IN IF Cardinality(slashes) < 2 THEN p
       ELSE SubSeq(p, MinOf(before) + 1, Len(p))

ClCallerKey == <<"c", "a", "l", "l", "e", "r">>

\* C22: with add-caller set an enabled call into the facade emits an event
\* with a caller attribute naming the first stack frame outside the logging
\* subsystem (the last two segments of its path, and the line); when no
\* such frame can be resolved the event is still emitted, without the
\* attribute; with add-caller unset no event carries a caller attribute.
C22_CallerAttribute ==
    (clPc = "returned" /\ handlerEnabled(handlers[base], clCall.level)) =>
        /\ clRec.made
        /\ clOut # <<>>
        /\ LET fr == ClOutside(clCall.stack) IN
           IF addCaller /\ fr.file # <<>>
           THEN /\ clRec.attrs =
                      <<[k |-> ClCallerKey,
                         v |-> VStr(ClLastTwo(fr.file) \o <<":">> \o natToBytes(fr.line))]>>
                /\ bytesContains(clOut, ClLastTwo(fr.file) \o <<":">> \o natToBytes(fr.line))
           ELSE /\ clRec.attrs = <<>>
                /\ ~bytesContains(clOut, ClCallerKey)

-----------------------------------------------------------------------------
(* The write-failure scenario: vlog.go 139-174, 222-260, 538-564, 614-643.  *)
(* After Setup, with a stream that takes every write or rejects every       *)
(* write, one package-level function is called.  A call ends in one of      *)
(* three ways: it returns, it panics, or it ends the process (os.Exit).     *)

\* The package-level functions that go through logArgs, and those that go
\* through logMsg
FwArgsFns == {"Debug", "Info", "Warn", "Error", "DPanic", "Panic", "Fatal"}
FwMsgFns == {"Debugf", "Infof", "Warnf", "Errorf", "DPanicf", "Panicf", "Fatalf"}

\* The level each function logs at (140-174)
fnLevel(fn) ==
    CASE fn \in {"Debug", "Debugf"} -> LevelDebug
      [] fn \in {"Info", "Infof"} -> LevelInfo
      [] fn \in {"Warn", "Warnf"} -> LevelWarn
      [] OTHER -> LevelError

\* Handle (538-564, 614-643) of an enabled record on a stream that rejects
\* the write (fails) or takes it: the error of h.w.Write is returned, and
\* the bytes are on the stream only when there was none
handleResult(arrs, h, rec, du, fails) ==
    [err |-> fails, out |-> IF fails THEN <<>> ELSE handleBytes(arrs, h, rec, du)]

\* writeRecord with the error of Handle raised as a panic
writeRecordRaises(arrs, h, level, msg, ac, du, fails) ==
    IF ~handlerEnabled(h, level)
    THEN [handled |-> FALSE, err |-> FALSE, out |-> <<>>, outcome |-> "returned"]
    ELSE LET r == handleResult(arrs, h, newRecord(level, msg, <<>>, ac), du, fails)
         IN [handled |-> TRUE, err |-> r.err, out |-> r.out,
             outcome |-> IF r.err THEN "panicked" ELSE "returned"]

\* writeRecord (242-260): nothing when the level is not enabled; else the
\* record goes to Handle and _ = h.Handle(...) drops what Handle returned
writeRecordResult(arrs, h, level, msg, ac, du, fails) ==
    IF ~handlerEnabled(h, level)
    THEN [handled |-> FALSE, err |-> FALSE, out |-> <<>>, outcome |-> "returned"]
    ELSE LET r == handleResult(arrs, h, newRecord(level, msg, <<>>, ac), du, fails)
         IN [handled |-> TRUE, err |-> r.err, out |-> r.out, outcome |-> "returned"]

\* What follows the logging inside the function: Panic and Panicf panic
\* (155, 168-169), Fatal and Fatalf call os.Exit(1) (158, 172-173), the
\* others return
fnEnd(fn, logged) ==
    IF logged # "returned" THEN logged
    ELSE IF fn \in {"Panic", "Panicf"} THEN "panicked"
    ELSE IF fn \in {"Fatal", "Fatalf"} THEN "exited"
    ELSE "returned"

FwOptions ==
    { [Level |-> name, JSON |-> json, AddCaller |-> FALSE,
       ColorizeLine |-> color, UnescapeMultiline |-> unesc] :
        name \in {strDebug, strWarn}, json \in BOOLEAN, color \in BOOLEAN, unesc \in BOOLEAN }

FwMsg == <<"m">>

\* Setup(opts); the stream is one that takes writes or one that rejects
\* them (a closed descriptor, a full disk)
FwSetup ==
    /\ fwPc = "start"
    /\ \E opts \in FwOptions : Setup(opts)
    /\ \E fails \in BOOLEAN : fwFails' = fails
    /\ fwPc' = "configured"
    /\ UNCHANGED <<arrays, stdout, once, fwCall, fwOthers>>

\* Debug .. Fatal (140-158) with a message or with no argument: logArgs
\* (222-234) returns at once without arguments, else writeRecord runs
FwLogArgs ==
    /\ fwPc = "configured"
    /\ \E fn \in FwArgsFns, hasArgs \in BOOLEAN :
          \E r \in {IF hasArgs
                    THEN writeRecordResult(arrays, handlers[base], fnLevel(fn), FwMsg,
                                           addCaller, doUnescape, fwFails)
                    ELSE [handled |-> FALSE, err |-> FALSE, out |-> <<>>, outcome |-> "returned"]} :
          /\ fwCall' = [fn |-> fn, args |-> hasArgs, handled |-> r.handled, err |-> r.err,
                        outcome |-> fnEnd(fn, r.outcome)]
          /\ stdout' = stdout \o r.out
    /\ fwPc' = "called"
    /\ UNCHANGED <<base, addCaller, doUnescape, handlers, arrays, mu, once, fwFails, fwOthers>>

\* Debugf .. Fatalf (161-174): logMsg (236-239), writeRecord
FwLogMsg ==
    /\ fwPc = "configured"
    /\ \E fn \in FwMsgFns :
          \E r \in {writeRecordResult(arrays, handlers[base], fnLevel(fn), FwMsg,
                                      addCaller, doUnescape, fwFails)} :
          /\ fwCall' = [fn |-> fn, args |-> TRUE, handled |-> r.handled, err |-> r.err,
                        outcome |-> fnEnd(fn, r.outcome)]
          /\ stdout' = stdout \o r.out
    /\ fwPc' = "called"
    /\ UNCHANGED <<base, addCaller, doUnescape, handlers, arrays, mu, once, fwFails, fwOthers>>

FwNext == FwSetup \/ FwLogArgs \/ FwLogMsg

SpecFail == Init /\ [][FwNext]_vars

\* The functions that panic or end the process after logging
FwEnding == {"Panic", "Panicf", "Fatal", "Fatalf"}

====
